---- MODULE Spec2Model ----
(***************************************************************************)
(* State-machine model of the classroom backend: the relational store      *)
(* (users, departments, subjects, classes, enrollments with their unique   *)
(* and foreign-key constraints), the middleware chain of every route, and  *)
(* the route handlers, one action per stretch of handler code between two  *)
(* store calls (the only points where requests interleave).                *)
(***************************************************************************)
EXTENDS Integers, Sequences, FiniteSets, TLC

VARIABLES
    users,              \* table "user": set of rows
    departments,        \* table "departments"
    subjects,           \* table "subjects"
    classes,            \* table "classes"
    enrollments,        \* table "enrollments"
    nextEnrollmentId,   \* identity sequence of enrollments.id
    nextDepartmentId,   \* identity sequence of departments.id
    nextClassId,        \* identity sequence of classes.id
    userClock,          \* defaultNow() of the next user row (a logical clock)
    req,                \* in-flight requests: slot -> request record
    inserted            \* history: each live enrollment row as its create path inserted it

store == <<users, departments, subjects, classes, enrollments, nextEnrollmentId,
           nextDepartmentId, nextClassId, userClock, inserted>>

vars == <<store, req>>

-----------------------------------------------------------------------------
(* Bounds of the model *)

NumClasses == 2
MaxEnrollmentId == 2
MaxDepartmentId == 3
MaxClassId == 3

Reqs == {1, 2}

-----------------------------------------------------------------------------
(* Values *)

NoUser == "none"        \* a session that resolves to no identity
Missing == "missing"    \* a string field absent from the input
MissingNum == -1        \* a numeric field absent from the input

Roles == {"admin", "teacher", "student"}

Null == "null"          \* a nullable text column or field holding null

UserRow(id, name, email, role, createdAt) ==
    [id |-> id, name |-> name, email |-> email, emailVerified |-> FALSE,
     image |-> Null, imageCldPubId |-> Null, role |-> role, createdAt |-> createdAt]

\* names and emails are sequences of characters (trim, ilike and the email
\* format read them character by character)
EmailOf(c) == <<c, "@", "x", ".", "y">>

SeedUsers ==
    { UserRow("ua", <<"A", "n", "n">>, EmailOf("a"), "admin", 1),
      UserRow("ut", <<"T", "o", "m">>, EmailOf("t"), "teacher", 2),
      UserRow("us", <<"S", "a", "m">>, EmailOf("s"), "student", 3) }

InviteCodes == <<"c1", "c2", "c3", "c4">>

\* createdAt: the store's now() at the insert; the seed inserts its rows in one
\* statement, at time 0
SeedDepartments ==
    { [id |-> 1, code |-> "CS", name |-> "Computing", description |-> Null,
       createdAt |-> 0] }

SeedSubjects == { [id |-> 1, departmentId |-> 1, code |-> "CS101"] }

ClassRow(id, inviteCode, name, subjectId, teacherId, capacity, status) ==
    [id |-> id, inviteCode |-> inviteCode, name |-> name, subjectId |-> subjectId,
     teacherId |-> teacherId, capacity |-> capacity, status |-> status]

SeedClasses ==
    { ClassRow(i, InviteCodes[i], "Algorithms", 1, "ut", 50, "active")
        : i \in 1..NumClasses }

-----------------------------------------------------------------------------
(* Store: lookups *)

RowsById(table, id) == {row \in table : row.id = id}

getUserById(userId) == RowsById(users, userId)

getClassById(classId) == RowsById(classes, classId)

getClassByInviteCode(inviteCode) == {c \in classes : c.inviteCode = inviteCode}

getEnrollmentById(enrollmentId) == RowsById(enrollments, enrollmentId)

\* the object a left join selects: the row that matches, or null
LeftJoin(rows) == IF rows = {} THEN Null ELSE CHOOSE row \in rows : TRUE

\* getTableColumns(enrollments) of a selected row
EnrollmentColumns(row) ==
    [id |-> row.id, studentId |-> row.studentId, classId |-> row.classId]

\* the enrollment with its class, the class's subject, the subject's
\* department and the class's teacher, each left-joined
getEnrollmentDetailsById(enrollmentId) ==
    { LET class == getClassById(e.classId)
          subject == {sub \in subjects : \E c \in class : sub.id = c.subjectId}
      IN  [id |-> e.id, studentId |-> e.studentId, classId |-> e.classId,
           class |-> LeftJoin(class),
           subject |-> LeftJoin(subject),
           department |-> LeftJoin({d \in departments :
                                       \E sub \in subject : d.id = sub.departmentId}),
           teacher |-> LeftJoin({u \in users : \E c \in class : u.id = c.teacherId})]
        : e \in RowsById(enrollments, enrollmentId) }

\* the existing-pair select with the student left out of its where clause
PairRows_anyStudent(studentId, classId) ==
    {e \in enrollments : e.classId = classId}

\* select ... where and(eq(classId), eq(studentId))
PairRows(studentId, classId) ==
    {e \in enrollments : e.classId = classId /\ e.studentId = studentId}

Role(userId) ==
    IF getUserById(userId) = {} THEN "none"
    ELSE (CHOOSE u \in getUserById(userId) : TRUE).role

-----------------------------------------------------------------------------
(* Store: constraints of table enrollments *)

\* uniqueIndex("enrollments_student_class_unq").on(studentId, classId)
enrollments_student_class_unq_mutant(rows) == TRUE

enrollments_student_class_unq(rows) ==
    \A e1, e2 \in rows :
        (e1.studentId = e2.studentId /\ e1.classId = e2.classId) => e1.id = e2.id

\* a store without the foreign keys of enrollments
enrollments_fk_not_enforced(rows) == TRUE

\* studentId references user.id, classId references classes.id
enrollments_fk(rows) ==
    \A e \in rows : getUserById(e.studentId) # {} /\ getClassById(e.classId) # {}

-----------------------------------------------------------------------------
(* Middleware: the authorization gate *)

Authenticate == [mw |-> "authenticate", roles |-> {}]

AuthorizeRoles(roles) == [mw |-> "authorizeRoles", roles |-> roles]

\* One middleware of a chain: session is the identity the session resolves to,
\* localsUser is res.locals.user as left by the middleware before it.
\* Result: the rejection status (0 = next()) and res.locals.user afterwards.
RunMiddleware(m, session, localsUser) ==
    IF m.mw = "authenticate"
    THEN IF session = NoUser
         THEN [status |-> 401, user |-> NoUser]
         ELSE [status |-> 0, user |-> session]
    ELSE IF Role(localsUser) \in m.roles
         THEN [status |-> 0, user |-> localsUser]
         ELSE [status |-> 403, user |-> localsUser]

RECURSIVE RunChain(_, _, _)
RunChain(chain, session, localsUser) ==
    IF chain = <<>>
    THEN [status |-> 0, user |-> localsUser]
    ELSE LET out == RunMiddleware(Head(chain), session, localsUser)
         IN  IF out.status # 0 THEN out
             ELSE RunChain(Tail(chain), session, out.user)

-----------------------------------------------------------------------------
(* Routes of the enrollments router and their middleware chains *)

EnrollmentsList == "GET /api/enrollments"
EnrollmentsGet == "GET /api/enrollments/:id"
EnrollmentsPost == "POST /api/enrollments"
EnrollmentsJoin == "POST /api/enrollments/join"
EnrollmentsPut == "PUT /api/enrollments/:id"
EnrollmentsDelete == "DELETE /api/enrollments/:id"

EnrollmentRoutes ==
    {EnrollmentsList, EnrollmentsGet, EnrollmentsPost, EnrollmentsJoin,
     EnrollmentsPut, EnrollmentsDelete}

EnrollmentsChain(route) == <<Authenticate>>

-----------------------------------------------------------------------------
(* Requests *)

IdleReq ==
    [route |-> "idle", pc |-> "idle",
     session |-> NoUser,            \* identity the session cookie resolves to
     user |-> NoUser,               \* res.locals.user?.id
     role |-> "none",               \* role of the session identity on arrival
     id |-> MissingNum,             \* req.params.id (numeric routes)
     userId |-> Missing,            \* req.params.id (users router)
     body |-> [kind |-> "none"],    \* req.body / req.query as a JSON object
     mw |-> 0,                      \* middleware of the chain that runs next
     existing |-> <<>>,             \* existingUser / existingDepartment
     classId |-> MissingNum,        \* body/query classId
     studentId |-> Missing,         \* body/query studentId
     inviteCode |-> Missing,        \* body inviteCode
     page |-> MissingNum,           \* query page
     limit |-> MissingNum,          \* query limit
     classRecordId |-> 0,           \* classRecord.id
     existingClassId |-> 0,         \* existingEnrollment.classId
     existingStudentId |-> Missing, \* existingEnrollment.studentId
     createdId |-> 0,               \* createdEnrollment.id
     sessionStudentId |-> NoUser,   \* const studentId = res.locals.user?.id
     thrown |-> "none",             \* what the catch block caught
     storeCalls |-> 0,              \* store calls issued so far
     totalCount |-> 0,              \* countResult[0]?.count ?? 0
     status |-> 0, error |-> "", data |-> <<>>,
     pagination |-> [page |-> 0, limit |-> 0, total |-> 0, totalPages |-> 0]]

Arrive(route, session, chain) ==
    LET gate == RunChain(chain, session, NoUser)
    IN  [IdleReq EXCEPT !.route = route, !.session = session,
                        !.role = Role(session), !.user = gate.user,
                        !.status = gate.status,
                        !.error = IF gate.status = 401 THEN "Unauthorized"
                                  ELSE IF gate.status = 403 THEN "Forbidden"
                                  ELSE "",
                        !.pc = IF gate.status # 0 THEN "done" ELSE "handler"]

Respond(q, status, error, data) ==
    [q EXCEPT !.pc = "done", !.status = status, !.error = error, !.data = data]

\* a catch block that leaves the handler where it was, to issue the call again
Catch_retry(q, what, error) == [q EXCEPT !.thrown = what]

\* the handler's catch block: console.error, then a 500 with the route's message
Catch(q, what, error) ==
    [q EXCEPT !.pc = "done", !.status = 500, !.error = error, !.thrown = what]

Await(q, pc) == [q EXCEPT !.pc = pc]

StoreCall(q) == [q EXCEPT !.storeCalls = @ + 1]

Sessions == {NoUser} \cup {u.id : u \in users}

Idle(r) == req[r].pc = "idle"

\* a new request takes the lowest free slot (slots are interchangeable)
Free(r) == Idle(r) /\ \A o \in Reqs : o < r => ~Idle(o)

-----------------------------------------------------------------------------
(* Validation schemas of the enrollments router.  A numeric field is a      *)
(* number (0: present, not positive) or MissingNum; a string field is a     *)
(* string ("": empty after trim) or Missing.  .strict() rejects every key   *)
(* the schema does not name.                                                *)

enrollmentIdParamSchema(q) == q.id >= 1

enrollmentCreateSchema(q) ==
    q.classId >= 1 /\ q.studentId = Missing /\ q.inviteCode = Missing

enrollmentJoinSchema(q) ==
    q.inviteCode \notin {Missing, ""} /\ q.classId = MissingNum /\ q.studentId = Missing

enrollmentUpdateSchema(q) ==
    /\ q.classId = MissingNum \/ q.classId >= 1
    /\ q.studentId = Missing \/ q.studentId # ""
    /\ q.inviteCode = Missing
    /\ q.classId # MissingNum \/ q.studentId # Missing

enrollmentListQuerySchema(q) ==
    /\ q.classId = MissingNum \/ q.classId >= 1
    /\ q.studentId = Missing \/ q.studentId # ""
    /\ q.page = MissingNum \/ q.page >= 1
    /\ q.limit = MissingNum \/ (q.limit >= 1 /\ q.limit <= 100)
    /\ q.inviteCode = Missing

OneRow(rows) == IF rows = {} THEN <<>> ELSE <<CHOOSE row \in rows : TRUE>>

CatchMessage(route) ==
    CASE route = EnrollmentsList -> "Failed to fetch enrollments"
      [] route = EnrollmentsGet -> "Failed to fetch enrollment"
      [] route = EnrollmentsPost -> "Failed to create enrollment"
      [] route = EnrollmentsJoin -> "Failed to join class"
      [] route = EnrollmentsPut -> "Failed to update enrollment"
      [] route = EnrollmentsDelete -> "Failed to delete enrollment"
      [] OTHER -> "Internal server error"

-----------------------------------------------------------------------------
(* POST /api/enrollments and POST /api/enrollments/join *)

EnrollmentCreateRoutes == {EnrollmentsPost, EnrollmentsJoin}

\* The student identity of a create taken from the body when it carries one.
CreateInput_fromBody(q) ==
    [ok |-> IF q.route = EnrollmentsPost
            THEN q.classId >= 1 /\ q.inviteCode = Missing
            ELSE q.inviteCode \notin {Missing, ""} /\ q.classId = MissingNum,
     studentId |-> IF q.studentId \notin {Missing, ""} THEN q.studentId ELSE q.user]

\* parseRequest(schema, req.body); const studentId = res.locals.user?.id
CreateInput(q) ==
    [ok |-> IF q.route = EnrollmentsPost
            THEN enrollmentCreateSchema(q)
            ELSE enrollmentJoinSchema(q),
     studentId |-> q.user]

\* the class id the existing-pair check and the insert use
CreateClassId(q) == IF q.route = EnrollmentsPost THEN q.classId ELSE q.classRecordId

\* the model stops taking creates once MaxEnrollmentId ids may have been issued
CreatesInFlight ==
    Cardinality({o \in Reqs : req[o].route \in EnrollmentCreateRoutes
                              /\ req[o].pc \notin {"idle", "done"}})

StartEnrollmentCreate(r, route, session, classId, inviteCode, studentId) ==
    /\ Free(r)
    /\ nextEnrollmentId + CreatesInFlight <= MaxEnrollmentId
    /\ LET q == [Arrive(route, session, EnrollmentsChain(route))
                    EXCEPT !.classId = classId, !.inviteCode = inviteCode,
                           !.studentId = studentId]
           in == CreateInput(q)
       IN  req' = [req EXCEPT ![r] =
                IF q.pc = "done" THEN q
                ELSE IF ~in.ok THEN Catch(q, "validation", CatchMessage(route))
                ELSE IF in.studentId = NoUser
                     THEN Respond(q, 401, "Unauthorized", <<>>)
                ELSE Await([q EXCEPT !.sessionStudentId = in.studentId], "getClass")]
    /\ UNCHANGED store

\* a join that answers an unknown invite code with an answer of its own
EnrollmentCreate_getClass_joinMissDiffers(r) ==
    /\ req[r].route \in EnrollmentCreateRoutes
    /\ req[r].pc = "getClass"
    /\ LET q == StoreCall(req[r])
           classRecord == IF q.route = EnrollmentsPost
                          THEN getClassById(q.classId)
                          ELSE getClassByInviteCode(q.inviteCode)
       IN  req' = [req EXCEPT ![r] =
                IF classRecord = {}
                THEN IF q.route = EnrollmentsPost
                     THEN Respond(q, 404, "Class not found", <<>>)
                     ELSE Respond(q, 400, "Invalid invite code", <<>>)
                ELSE Await([q EXCEPT !.classRecordId =
                                (CHOOSE c \in classRecord : TRUE).id], "getUser")]
    /\ UNCHANGED store

\* const classRecord = await getClassById(classId) / getClassByInviteCode(inviteCode);
\* if (!classRecord) return res.status(404).json({ error: "Class not found" })
EnrollmentCreate_getClass(r) ==
    /\ req[r].route \in EnrollmentCreateRoutes
    /\ req[r].pc = "getClass"
    /\ LET q == StoreCall(req[r])
           classRecord == IF q.route = EnrollmentsPost
                          THEN getClassById(q.classId)
                          ELSE getClassByInviteCode(q.inviteCode)
       IN  req' = [req EXCEPT ![r] =
                IF classRecord = {}
                THEN Respond(q, 404, "Class not found", <<>>)
                ELSE Await([q EXCEPT !.classRecordId =
                                (CHOOSE c \in classRecord : TRUE).id], "getUser")]
    /\ UNCHANGED store

\* a create that only lets students enroll
EnrollmentCreate_getUser_studentsOnly(r) ==
    /\ req[r].route \in EnrollmentCreateRoutes
    /\ req[r].pc = "getUser"
    /\ LET q == StoreCall(req[r])
       IN  req' = [req EXCEPT ![r] =
                IF getUserById(q.sessionStudentId) = {}
                THEN Respond(q, 404, "Student not found", <<>>)
                ELSE IF Role(q.sessionStudentId) # "student"
                THEN Respond(q, 403, "Forbidden", <<>>)
                ELSE Await(q, "checkPair")]
    /\ UNCHANGED store

EnrollmentCreate_getUser(r) ==
    /\ req[r].route \in EnrollmentCreateRoutes
    /\ req[r].pc = "getUser"
    /\ LET q == StoreCall(req[r])
       IN  req' = [req EXCEPT ![r] =
                IF getUserById(q.sessionStudentId) = {}
                THEN Respond(q, 404, "Student not found", <<>>)
                ELSE Await(q, "checkPair")]
    /\ UNCHANGED store

\* a create that goes on to the insert whatever the pair check found
EnrollmentCreate_checkPair_ignored(r) ==
    /\ req[r].route \in EnrollmentCreateRoutes
    /\ req[r].pc = "checkPair"
    /\ req' = [req EXCEPT ![r] = Await(StoreCall(req[r]), "insert")]
    /\ UNCHANGED store

EnrollmentCreate_checkPair(r) ==
    /\ req[r].route \in EnrollmentCreateRoutes
    /\ req[r].pc = "checkPair"
    /\ LET q == StoreCall(req[r])
       IN  req' = [req EXCEPT ![r] =
                IF PairRows(q.sessionStudentId, CreateClassId(q)) # {}
                THEN Respond(q, 409, "Student already enrolled in class", <<>>)
                ELSE Await(q, "insert")]
    /\ UNCHANGED store

EnrollmentCreate_insert(r) ==
    /\ req[r].route \in EnrollmentCreateRoutes
    /\ req[r].pc = "insert"
    /\ LET q == StoreCall(req[r])
           row == [id |-> nextEnrollmentId, studentId |-> q.sessionStudentId,
                   classId |-> CreateClassId(q)]
           rows == enrollments \cup {row}
       IN  IF ~enrollments_student_class_unq(rows)
           THEN /\ req' = [req EXCEPT ![r] =
                              Catch(q, "unique", CatchMessage(q.route))]
                /\ UNCHANGED <<enrollments, nextEnrollmentId, inserted>>
           ELSE IF ~enrollments_fk(rows)
           THEN /\ req' = [req EXCEPT ![r] =
                              Catch(q, "foreign_key", CatchMessage(q.route))]
                /\ UNCHANGED <<enrollments, nextEnrollmentId, inserted>>
           ELSE /\ enrollments' = rows
                /\ nextEnrollmentId' = nextEnrollmentId + 1
                /\ inserted' = inserted \cup
                       {[id |-> row.id, studentId |-> row.studentId,
                         classId |-> row.classId, by |-> q.session]}
                /\ req' = [req EXCEPT ![r] =
                              Await([q EXCEPT !.createdId = row.id], "fetch")]
    /\ UNCHANGED <<users, departments, subjects, classes,
                   nextDepartmentId, nextClassId, userClock>>

EnrollmentCreate_fetch(r) ==
    /\ req[r].route \in EnrollmentCreateRoutes
    /\ req[r].pc = "fetch"
    /\ LET q == StoreCall(req[r])
       IN  req' = [req EXCEPT ![r] =
                Respond(q, 201, "", OneRow(getEnrollmentDetailsById(q.createdId)))]
    /\ UNCHANGED store

-----------------------------------------------------------------------------
(* PUT /api/enrollments/:id *)

StartEnrollmentUpdate(r, session, id, classId, studentId) ==
    /\ Free(r)
    /\ LET q == [Arrive(EnrollmentsPut, session, EnrollmentsChain(EnrollmentsPut))
                    EXCEPT !.id = id, !.classId = classId, !.studentId = studentId]
       IN  req' = [req EXCEPT ![r] =
                IF q.pc = "done" THEN q
                ELSE IF ~enrollmentIdParamSchema(q) \/ ~enrollmentUpdateSchema(q)
                     THEN Catch(q, "validation", CatchMessage(EnrollmentsPut))
                ELSE Await(q, "getEnrollment")]
    /\ UNCHANGED store

\* JavaScript truthiness of the optional body fields
GivenClassId(q) == q.classId # MissingNum /\ q.classId # 0

GivenStudentId(q) == q.studentId # Missing /\ q.studentId # ""

EnrollmentUpdate_getEnrollment(r) ==
    /\ req[r].route = EnrollmentsPut
    /\ req[r].pc = "getEnrollment"
    /\ LET q == StoreCall(req[r])
           existingEnrollment == getEnrollmentById(q.id)
       IN  req' = [req EXCEPT ![r] =
                IF existingEnrollment = {}
                THEN Respond(q, 404, "Enrollment not found", <<>>)
                ELSE LET e == CHOOSE row \in existingEnrollment : TRUE
                     IN  Await([q EXCEPT !.existingClassId = e.classId,
                                         !.existingStudentId = e.studentId],
                               IF GivenClassId(q) THEN "getClass"
                               ELSE IF GivenStudentId(q) THEN "getUser"
                               ELSE "update")]
    /\ UNCHANGED store

EnrollmentUpdate_getClass(r) ==
    /\ req[r].route = EnrollmentsPut
    /\ req[r].pc = "getClass"
    /\ LET q == StoreCall(req[r])
       IN  req' = [req EXCEPT ![r] =
                IF getClassById(q.classId) = {}
                THEN Respond(q, 404, "Class not found", <<>>)
                ELSE Await(q, IF GivenStudentId(q) THEN "getUser" ELSE "checkPair")]
    /\ UNCHANGED store

EnrollmentUpdate_getUser(r) ==
    /\ req[r].route = EnrollmentsPut
    /\ req[r].pc = "getUser"
    /\ LET q == StoreCall(req[r])
       IN  req' = [req EXCEPT ![r] =
                IF getUserById(q.studentId) = {}
                THEN Respond(q, 404, "Student not found", <<>>)
                ELSE Await(q, "checkPair")]
    /\ UNCHANGED store

\* classId ?? existingEnrollment.classId, studentId ?? existingEnrollment.studentId
ClassIdToCheck(q) == IF q.classId # MissingNum THEN q.classId ELSE q.existingClassId

StudentIdToCheck(q) == IF q.studentId # Missing THEN q.studentId ELSE q.existingStudentId

\* a pair check that counts the enrollment's own row
EnrollmentUpdate_checkPair_ownRowCounts(r) ==
    /\ req[r].route = EnrollmentsPut
    /\ req[r].pc = "checkPair"
    /\ LET q == StoreCall(req[r])
           existingEnrollmentPair == PairRows(StudentIdToCheck(q), ClassIdToCheck(q))
       IN  req' = [req EXCEPT ![r] =
                IF existingEnrollmentPair # {}
                THEN Respond(q, 409, "Student already enrolled in class", <<>>)
                ELSE Await(q, "update")]
    /\ UNCHANGED store

\* select id from enrollments where classId = classIdToCheck and
\* studentId = studentIdToCheck and id <> enrollmentId
EnrollmentUpdate_checkPair(r) ==
    /\ req[r].route = EnrollmentsPut
    /\ req[r].pc = "checkPair"
    /\ LET q == StoreCall(req[r])
           existingEnrollmentPair ==
               {e \in PairRows(StudentIdToCheck(q), ClassIdToCheck(q)) : e.id # q.id}
       IN  req' = [req EXCEPT ![r] =
                IF existingEnrollmentPair # {}
                THEN Respond(q, 409, "Student already enrolled in class", <<>>)
                ELSE Await(q, "update")]
    /\ UNCHANGED store

\* db.update(enrollments).set(updateValues).where(eq(enrollments.id, enrollmentId))
UpdatedEnrollments(q) ==
    { IF e.id # q.id THEN e
      ELSE [e EXCEPT !.classId = IF GivenClassId(q) THEN q.classId ELSE @,
                     !.studentId = IF GivenStudentId(q) THEN q.studentId ELSE @]
        : e \in enrollments }

EnrollmentUpdate_update(r) ==
    /\ req[r].route = EnrollmentsPut
    /\ req[r].pc = "update"
    /\ LET q == StoreCall(req[r])
           rows == UpdatedEnrollments(q)
       IN  IF ~enrollments_student_class_unq(rows)
           THEN /\ req' = [req EXCEPT ![r] =
                              Catch(q, "unique", CatchMessage(q.route))]
                /\ UNCHANGED enrollments
           ELSE IF ~enrollments_fk(rows)
           THEN /\ req' = [req EXCEPT ![r] =
                              Catch(q, "foreign_key", CatchMessage(q.route))]
                /\ UNCHANGED enrollments
           ELSE /\ enrollments' = rows
                /\ req' = [req EXCEPT ![r] = Await(q, "refetch")]
    /\ UNCHANGED <<users, departments, subjects, classes, nextEnrollmentId,
                   nextDepartmentId, nextClassId, userClock, inserted>>

EnrollmentUpdate_refetch(r) ==
    /\ req[r].route = EnrollmentsPut
    /\ req[r].pc = "refetch"
    /\ LET q == StoreCall(req[r])
       IN  req' = [req EXCEPT ![r] =
                Respond(q, 200, "", OneRow(getEnrollmentById(q.id)))]
    /\ UNCHANGED store

-----------------------------------------------------------------------------
(* DELETE /api/enrollments/:id *)

StartEnrollmentDelete(r, session, id) ==
    /\ Free(r)
    /\ LET q == [Arrive(EnrollmentsDelete, session,
                        EnrollmentsChain(EnrollmentsDelete)) EXCEPT !.id = id]
       IN  req' = [req EXCEPT ![r] =
                IF q.pc = "done" THEN q
                ELSE IF ~enrollmentIdParamSchema(q)
                     THEN Catch(q, "validation", CatchMessage(EnrollmentsDelete))
                ELSE Await(q, "delete")]
    /\ UNCHANGED store

EnrollmentDelete_delete(r) ==
    /\ req[r].route = EnrollmentsDelete
    /\ req[r].pc = "delete"
    /\ LET q == StoreCall(req[r])
           deletedRows == getEnrollmentById(q.id)
       IN  /\ enrollments' = enrollments \ deletedRows
           /\ inserted' = {l \in inserted : l.id # q.id}
           /\ req' = [req EXCEPT ![r] =
                  IF deletedRows = {}
                  THEN Respond(q, 404, "Enrollment not found", <<>>)
                  ELSE Respond(q, 200, "Enrollment deleted", <<>>)]
    /\ UNCHANGED <<users, departments, subjects, classes, nextEnrollmentId,
                   nextDepartmentId, nextClassId, userClock>>

-----------------------------------------------------------------------------
(* The response is sent; the slot is free for the next request *)

Finish(r) ==
    /\ req[r].pc = "done"
    /\ req' = [req EXCEPT ![r] = IdleReq]
    /\ UNCHANGED store

-----------------------------------------------------------------------------
(* GET /api/enrollments/:id *)

StartEnrollmentGet(r, session, id) ==
    /\ Free(r)
    /\ LET q == [Arrive(EnrollmentsGet, session, EnrollmentsChain(EnrollmentsGet))
                    EXCEPT !.id = id]
       IN  req' = [req EXCEPT ![r] =
                IF q.pc = "done" THEN q
                ELSE IF ~enrollmentIdParamSchema(q)
                     THEN Catch(q, "validation", CatchMessage(EnrollmentsGet))
                ELSE Await(q, "get")]
    /\ UNCHANGED store

EnrollmentGet_get(r) ==
    /\ req[r].route = EnrollmentsGet
    /\ req[r].pc = "get"
    /\ LET q == StoreCall(req[r])
           enrollment == getEnrollmentById(q.id)
       IN  req' = [req EXCEPT ![r] =
                IF enrollment = {}
                THEN Respond(q, 404, "Enrollment not found", <<>>)
                ELSE Respond(q, 200, "", OneRow(enrollment))]
    /\ UNCHANGED store

-----------------------------------------------------------------------------
(* GET /api/enrollments *)

DefaultPage == 1
DefaultLimit == 10

Max(a, b) == IF a >= b THEN a ELSE b

Min(a, b) == IF a <= b THEN a ELSE b

\* Math.ceil(a / b) for a >= 0, b >= 1
Ceil(a, b) == (a + b - 1) \div b

\* const { page = 1, limit = 10 } = ...; Math.max(1, +page); Math.max(1, +limit)
CurrentPage(q) == Max(1, IF q.page = MissingNum THEN DefaultPage ELSE q.page)

LimitPerPage(q) == Max(1, IF q.limit = MissingNum THEN DefaultLimit ELSE q.limit)

\* an offset that skips the requested page itself
Offset_pastThePage(q) == CurrentPage(q) * LimitPerPage(q)

\* const offset = (currentPage - 1) * limitPerPage
Offset(q) == (CurrentPage(q) - 1) * LimitPerPage(q)

\* rows in descending order of creation (the identity column grows with time)
RECURSIVE NewestFirst(_)
NewestFirst(rows) ==
    IF rows = {} THEN <<>>
    ELSE LET newest == CHOOSE x \in rows : \A y \in rows : y.id <= x.id
         IN  <<newest>> \o NewestFirst(rows \ {newest})

\* .limit(limitPerPage).offset(offset)
PageSlice(ordered, limit, offset) ==
    SubSeq(ordered, offset + 1, Min(Len(ordered), offset + limit))

\* and(...filterConditions): a filter is pushed when its value is truthy
EnrollmentsWhere(q) ==
    {e \in enrollments :
        /\ GivenClassId(q) => e.classId = q.classId
        /\ GivenStudentId(q) => e.studentId = q.studentId}

StartEnrollmentList(r, session, classId, studentId, page, limit) ==
    /\ Free(r)
    /\ LET q == [Arrive(EnrollmentsList, session, EnrollmentsChain(EnrollmentsList))
                    EXCEPT !.classId = classId, !.studentId = studentId,
                           !.page = page, !.limit = limit]
       IN  req' = [req EXCEPT ![r] =
                IF q.pc = "done" THEN q
                ELSE IF ~enrollmentListQuerySchema(q)
                     THEN Catch(q, "validation", CatchMessage(EnrollmentsList))
                ELSE Await(q, "count")]
    /\ UNCHANGED store

EnrollmentList_count(r) ==
    /\ req[r].route = EnrollmentsList
    /\ req[r].pc = "count"
    /\ LET q == StoreCall(req[r])
       IN  req' = [req EXCEPT ![r] =
                Await([q EXCEPT !.totalCount = Cardinality(EnrollmentsWhere(q))],
                      "list")]
    /\ UNCHANGED store

\* The page query orders by enrollments.createdAt, a column table enrollments
\* does not define (it has enrolledAt): the query builder is handed undefined.
\* Either the statement fails and the catch block answers, or the order falls
\* back to the creation order.
EnrollmentList_list(r) ==
    /\ req[r].route = EnrollmentsList
    /\ req[r].pc = "list"
    /\ LET q == StoreCall(req[r])
           enrollmentList == PageSlice(NewestFirst(EnrollmentsWhere(q)),
                                       LimitPerPage(q), Offset(q))
       IN  \/ req' = [req EXCEPT ![r] =
                  Catch(q, "orderBy", CatchMessage(EnrollmentsList))]
           \/ req' = [req EXCEPT ![r] =
                  [Respond(q, 200, "", enrollmentList) EXCEPT !.pagination =
                      [page |-> CurrentPage(q), limit |-> LimitPerPage(q),
                       total |-> q.totalCount,
                       totalPages |-> Ceil(q.totalCount, LimitPerPage(q))]]]
    /\ UNCHANGED store

-----------------------------------------------------------------------------
(* Inputs *)

ClassIdInputs == 0..(NumClasses + 1)

InviteCodeInputs == {""} \cup {InviteCodes[i] : i \in 1..(NumClasses + 1)}

EnrollmentIdInputs == 0..MaxEnrollmentId

StudentIdInputs == {"", "us", "ut", "ux"}

\* the interleaved specification takes well-formed requests: creates by the
\* student, updates and deletes by the teacher
UpdateBodies ==
    {[classId |-> c, studentId |-> Missing] : c \in 1..NumClasses}
    \cup {[classId |-> MissingNum, studentId |-> u] : u \in {"us"}}

-----------------------------------------------------------------------------
(* Specification: the enrollment write paths, requests interleaved *)

Init ==
    /\ users = SeedUsers
    /\ departments = SeedDepartments
    /\ subjects = SeedSubjects
    /\ classes = SeedClasses
    /\ enrollments = {}
    /\ nextEnrollmentId = 1
    /\ nextDepartmentId = 2
    /\ nextClassId = NumClasses + 1
    /\ userClock = 4
    /\ req = [r \in Reqs |-> IdleReq]
    /\ inserted = {}

EnrollmentHandlerStep(r) ==
    \/ EnrollmentCreate_getClass(r)
    \/ EnrollmentCreate_getUser(r)
    \/ EnrollmentCreate_checkPair(r)
    \/ EnrollmentCreate_insert(r)
    \/ EnrollmentCreate_fetch(r)
    \/ EnrollmentUpdate_getEnrollment(r)
    \/ EnrollmentUpdate_getClass(r)
    \/ EnrollmentUpdate_getUser(r)
    \/ EnrollmentUpdate_checkPair(r)
    \/ EnrollmentUpdate_update(r)
    \/ EnrollmentUpdate_refetch(r)
    \/ EnrollmentDelete_delete(r)
    \/ Finish(r)

Next ==
    \E r \in Reqs :
        \/ \E classId \in 1..NumClasses :
              StartEnrollmentCreate(r, EnrollmentsPost, "us", classId, Missing, Missing)
        \/ \E i \in 1..NumClasses :
              StartEnrollmentCreate(r, EnrollmentsJoin, "us", MissingNum,
                                    InviteCodes[i], Missing)
        \/ \E id \in 1..MaxEnrollmentId, body \in UpdateBodies :
              StartEnrollmentUpdate(r, "ut", id, body.classId, body.studentId)
        \/ \E id \in 1..MaxEnrollmentId :
              StartEnrollmentDelete(r, "ut", id)
        \/ EnrollmentHandlerStep(r)

Spec == Init /\ [][Next]_vars

-----------------------------------------------------------------------------
(* Properties of the interleaved enrollment writes *)

Done(r) == req[r].pc = "done"

IsCreate(r) == req[r].route \in EnrollmentCreateRoutes

\* the request reached its insert: the advisory existing-pair check found nothing
ReachedInsert(r) == req[r].createdId # 0 \/ req[r].thrown \in {"unique", "foreign_key"}

\* C1: in every reachable state the enrollments table holds at most one row for
\* each (studentId, classId) pair, whatever the interleaving of POST
\* /api/enrollments, POST /api/enrollments/join and PUT /api/enrollments/:id.
C1_OneRowPerPair ==
    \A e1, e2 \in enrollments :
        (e1.studentId = e2.studentId /\ e1.classId = e2.classId) => e1 = e2

\* two creates for the same pair were both past the advisory check, one of
\* them inserted, the unique index refused the other, and one row is stored
C1_Witness ==
    \E r1, r2 \in Reqs :
        /\ r1 # r2 /\ IsCreate(r1) /\ IsCreate(r2)
        /\ req[r1].createdId # 0
        /\ req[r2].thrown = "unique"
        /\ req[r1].sessionStudentId = req[r2].sessionStudentId
        /\ CreateClassId(req[r1]) = CreateClassId(req[r2])
        /\ Cardinality(PairRows(req[r1].sessionStudentId, CreateClassId(req[r1]))) = 1

\* C2: when two creates (POST /api/enrollments or /join) for the same (student,
\* class) both pass the existing-pair check before either inserts, exactly one
\* responds 201 and the other responds 409 (not 500).
C2_RaceLoserGets409 ==
    \A r1, r2 \in Reqs :
        ( /\ r1 # r2 /\ IsCreate(r1) /\ IsCreate(r2)
          /\ Done(r1) /\ Done(r2)
          /\ req[r1].sessionStudentId = req[r2].sessionStudentId
          /\ CreateClassId(req[r1]) = CreateClassId(req[r2])
          /\ req[r1].createdId # 0
          /\ req[r2].thrown = "unique" )
        => (req[r1].status = 201 /\ req[r2].status = 409)

-----------------------------------------------------------------------------
(* Specification: every route of the enrollments router, one request at a   *)
(* time (a request starts after the response of the one before it), with    *)
(* malformed and unauthenticated requests among the inputs                  *)

EnrollmentSessions == {NoUser, "us", "ut"}

PageInputs == {MissingNum, 0, 2}

LimitInputs == {MissingNum, 1, 101}

AllUpdateBodies ==
    {[classId |-> MissingNum, studentId |-> Missing],
     [classId |-> 0, studentId |-> Missing],
     [classId |-> MissingNum, studentId |-> ""]}
    \cup {[classId |-> c, studentId |-> Missing] : c \in 1..(NumClasses + 1)}
    \cup {[classId |-> MissingNum, studentId |-> u] : u \in {"us", "ut", "ux"}}
    \cup {[classId |-> c, studentId |-> u] : c \in 1..NumClasses, u \in {"us", "ut"}}

SerialNext ==
    \/ \E session \in EnrollmentSessions, classId \in ClassIdInputs,
          studentId \in {Missing, "ut"} :
          StartEnrollmentCreate(1, EnrollmentsPost, session, classId, Missing,
                                studentId)
    \/ \E session \in EnrollmentSessions, inviteCode \in InviteCodeInputs,
          studentId \in {Missing, "ut"} :
          StartEnrollmentCreate(1, EnrollmentsJoin, session, MissingNum, inviteCode,
                                studentId)
    \/ \E session \in EnrollmentSessions, id \in EnrollmentIdInputs,
          body \in AllUpdateBodies :
          StartEnrollmentUpdate(1, session, id, body.classId, body.studentId)
    \/ \E session \in EnrollmentSessions, id \in EnrollmentIdInputs :
          StartEnrollmentDelete(1, session, id)
    \/ \E session \in EnrollmentSessions, id \in EnrollmentIdInputs :
          StartEnrollmentGet(1, session, id)
    \/ \E session \in EnrollmentSessions, classId \in {MissingNum, 1},
          studentId \in {Missing, "us"}, page \in PageInputs, limit \in LimitInputs :
          StartEnrollmentList(1, session, classId, studentId, page, limit)
    \/ EnrollmentGet_get(1)
    \/ EnrollmentList_count(1)
    \/ EnrollmentList_list(1)
    \/ EnrollmentHandlerStep(1)

SerialSpec == Init /\ [][SerialNext]_vars

-----------------------------------------------------------------------------
(* Properties of the enrollments router, one request at a time *)

\* the class a create names: by id (POST) or by invite code (join)
NamedClass(q) ==
    IF q.route = EnrollmentsPost THEN {c \in classes : c.id = q.classId}
    ELSE {c \in classes : c.inviteCode = q.inviteCode}

\* a finished create by a signed-in user whose body is well formed and names
\* an existing class
CreateForClass(r, c) ==
    /\ Done(r) /\ IsCreate(r)
    /\ req[r].session # NoUser
    /\ req[r].studentId = Missing
    /\ c \in NamedClass(req[r])

\* C3 as stated: without overlap, a create or join for an existing class the
\* caller is not enrolled in responds 201 with an enrollment of that class, and
\* every later create or join of the same user for the same class responds 409
\* and adds no row as long as the enrollment created then has not been deleted.
C3_RepeatIs409UnlessDeleted ==
    \A c \in classes :
        CreateForClass(1, c) =>
            LET q == req[1]
                earlier == {l \in inserted : /\ l.id # q.createdId
                                             /\ l.studentId = q.session
                                             /\ l.classId = c.id}
            IN  earlier # {} => (q.status = 409 /\ q.createdId = 0)

\* C3 as amended: without overlap, a create or join for an existing class
\* responds 201 with the new enrollment of the caller in that class when no
\* row holds the (caller, class) pair, and responds 409 and adds no row when a
\* row holds it (an earlier enrollment neither deleted nor moved to another
\* pair by PUT).
C3_SerialCreateOutcome ==
    \A c \in classes :
        CreateForClass(1, c) =>
            LET q == req[1]
                held == {e \in enrollments : /\ e.id # q.createdId
                                             /\ e.studentId = q.session
                                             /\ e.classId = c.id}
                created == [id |-> q.createdId, studentId |-> q.session,
                            classId |-> c.id]
            IN  IF held = {}
                THEN /\ q.status = 201
                     /\ q.createdId # 0
                     /\ Len(q.data) = 1
                     /\ EnrollmentColumns(q.data[1]) = created
                     /\ created \in enrollments
                ELSE /\ q.status = 409
                     /\ q.createdId = 0
                     /\ q.data = <<>>

\* a repeated create answered 409 while the row of the first create is stored
C3_Witness ==
    /\ Done(1) /\ IsCreate(1)
    /\ req[1].status = 409
    /\ \E l \in inserted :
          /\ l.studentId = req[1].session
          /\ \E c \in NamedClass(req[1]) : l.classId = c.id
          /\ [id |-> l.id, studentId |-> l.studentId, classId |-> l.classId]
                \in enrollments

\* C4: every row inserted by POST /api/enrollments or /join has the session
\* user's id as studentId; no body (one carrying studentId included) creates an
\* enrollment for another user.
C4_StudentIsCaller ==
    /\ \A l \in inserted : l.studentId = l.by
    /\ \A r \in Reqs :
          (IsCreate(r) /\ req[r].createdId # 0) =>
              /\ req[r].studentId = Missing
              /\ req[r].sessionStudentId = req[r].session

\* the student created an enrollment, and it is the student's own
C4_Witness ==
    /\ Done(1) /\ IsCreate(1)
    /\ req[1].session = "us"
    /\ req[1].status = 201
    /\ \E l \in inserted : l.id = req[1].createdId /\ l.by = "us" /\ l.studentId = "us"

GatedForStaff == {EnrollmentsList, EnrollmentsGet, EnrollmentsPut, EnrollmentsDelete}

\* C6: GET /api/enrollments, GET/PUT/DELETE /api/enrollments/:id are for admin
\* and teacher only: a student's request is rejected with 403, returns no
\* enrollment data and issues no read, change or delete.
C6_StudentForbidden ==
    \A r \in Reqs :
        (Done(r) /\ req[r].route \in GatedForStaff /\ req[r].role = "student") =>
            (req[r].status = 403 /\ req[r].data = <<>> /\ req[r].storeCalls = 0)

-----------------------------------------------------------------------------
(* Request bodies and queries as JSON objects: keys is the set of keys the   *)
(* object carries, wrongType the keys whose value has another JSON type than *)
(* the schema's; a field the object lacks holds a filler the schema and the  *)
(* handler never read                                                        *)

Has(b, k) == k \in b.keys

Space == " "

\* String.prototype.trim, on a sequence of characters
RECURSIVE TrimStart(_)
TrimStart(s) == IF s # <<>> /\ Head(s) = Space THEN TrimStart(Tail(s)) ELSE s

RECURSIVE TrimEnd(_)
TrimEnd(s) ==
    IF s # <<>> /\ s[Len(s)] = Space THEN TrimEnd(SubSeq(s, 1, Len(s) - 1)) ELSE s

Trim(s) == TrimEnd(TrimStart(s))

\* z.string().email(): one "@" after a non-empty local part, a domain with a
\* dot inside it, no blank
IsEmail(s) ==
    \E at \in 2..(Len(s) - 3) :
        /\ s[at] = "@"
        /\ \A j \in 1..Len(s) : s[j] # Space /\ (s[j] = "@" => j = at)
        /\ \E dot \in (at + 2)..(Len(s) - 1) : s[dot] = "."

LowerChar(c) ==
    CASE c = "A" -> "a" [] c = "S" -> "s" [] c = "T" -> "t" [] c = "N" -> "n"
      [] c = "C" -> "c" [] c = "M" -> "m" [] c = "P" -> "p" [] c = "H" -> "h"
      [] OTHER -> c

Lower(s) == [i \in 1..Len(s) |-> LowerChar(s[i])]

\* ilike(column, `%${search}%`), for a search without the wildcards % and _
ILike(text, search) ==
    \E i \in 1..(Len(text) - Len(search) + 1) :
        SubSeq(Lower(text), i, i + Len(search) - 1) = Lower(search)

-----------------------------------------------------------------------------
(* Routes of the users router; none of them has a middleware *)

UsersList == "GET /api/users"
UsersGet == "GET /api/users/:id"
UsersPost == "POST /api/users"
UsersPut == "PUT /api/users/:id"
UsersDelete == "DELETE /api/users/:id"

UserRoutes == {UsersList, UsersGet, UsersPost, UsersPut, UsersDelete}

\* app.use("/api/users", usersRouter); router.get("/", async (req, res) => ...
UsersChain(route) == <<>>

UserCatchMessage(route) ==
    CASE route = UsersList -> "Failed to fetch users"
      [] route = UsersGet -> "Failed to fetch user"
      [] route = UsersPost -> "Failed to create user"
      [] route = UsersPut -> "Failed to update user"
      [] route = UsersDelete -> "Failed to delete user"

getUserByEmail(email) == {u \in users : u.email = email}

\* primary key of table user, and the unique constraint on user.email
user_pkey(rows) == \A u1, u2 \in rows : u1.id = u2.id => u1 = u2

user_email_unique(rows) == \A u1, u2 \in rows : u1.email = u2.email => u1.id = u2.id

-----------------------------------------------------------------------------
(* Validation schemas of the users router *)

UserCreateKeys ==
    {"id", "name", "email", "emailVerified", "image", "imageCldPubId", "role"}

UserUpdateKeys == UserCreateKeys \ {"id"}

UserListKeys == {"role", "search", "page", "limit"}

userIdParamSchema(q) == q.userId \notin {Missing, ""}

userCreateSchema(b) ==
    /\ b.keys \subseteq UserCreateKeys
    /\ b.wrongType = {}
    /\ Has(b, "id") /\ b.id # ""
    /\ Has(b, "name") /\ Trim(b.name) # <<>>
    /\ Has(b, "email") /\ IsEmail(Trim(b.email))
    /\ Has(b, "role") => b.role \in Roles

userUpdateSchema(b) ==
    /\ b.keys \subseteq UserUpdateKeys
    /\ b.wrongType = {}
    /\ Has(b, "name") => Trim(b.name) # <<>>
    /\ Has(b, "email") => IsEmail(Trim(b.email))
    /\ Has(b, "role") => b.role \in Roles
    /\ b.keys # {}

userListQuerySchema(q) ==
    /\ q.body.keys \subseteq UserListKeys
    /\ q.body.wrongType = {}
    /\ Has(q.body, "role") => q.body.role \in Roles
    /\ Has(q.body, "search") => Trim(q.body.search) # <<>>
    /\ Has(q.body, "page") => q.page >= 1
    /\ Has(q.body, "limit") => (q.limit >= 1 /\ q.limit <= 100)

\* the parsed payload of userCreateSchema: strings trimmed, defaults filled in
UserCreatePayload(b) ==
    [id |-> b.id, name |-> Trim(b.name), email |-> Trim(b.email),
     emailVerified |-> IF Has(b, "emailVerified") THEN b.emailVerified ELSE FALSE,
     image |-> IF Has(b, "image") THEN b.image ELSE Null,
     imageCldPubId |-> IF Has(b, "imageCldPubId") THEN b.imageCldPubId ELSE Null,
     role |-> IF Has(b, "role") THEN b.role ELSE "student"]

-----------------------------------------------------------------------------
(* POST /api/users *)

MaxUserClock == 5

UserCreatesInFlight ==
    Cardinality({o \in Reqs : req[o].route = UsersPost
                              /\ req[o].pc \notin {"idle", "done"}})

StartUserCreate(r, session, body) ==
    /\ Free(r)
    /\ userClock + UserCreatesInFlight <= MaxUserClock
    /\ LET q == [Arrive(UsersPost, session, UsersChain(UsersPost))
                    EXCEPT !.body = body]
       IN  req' = [req EXCEPT ![r] =
                IF q.pc = "done" THEN q
                ELSE IF ~userCreateSchema(body)
                     THEN Catch(q, "validation", UserCatchMessage(UsersPost))
                ELSE Await(q, "getUserByEmail")]
    /\ UNCHANGED store

UserCreate_getUserByEmail(r) ==
    /\ req[r].route = UsersPost
    /\ req[r].pc = "getUserByEmail"
    /\ LET q == StoreCall(req[r])
       IN  req' = [req EXCEPT ![r] =
                IF getUserByEmail(UserCreatePayload(q.body).email) # {}
                THEN Respond(q, 409, "Email already exists", <<>>)
                ELSE Await(q, "insert")]
    /\ UNCHANGED store

UserCreate_insert(r) ==
    /\ req[r].route = UsersPost
    /\ req[r].pc = "insert"
    /\ LET q == StoreCall(req[r])
           payload == UserCreatePayload(q.body)
           createdUser == payload @@ [createdAt |-> userClock]
           rows == users \cup {createdUser}
       IN  IF getUserById(payload.id) # {} \/ ~user_email_unique(rows)
           THEN /\ req' = [req EXCEPT ![r] =
                              Catch(q, "unique", UserCatchMessage(UsersPost))]
                /\ UNCHANGED <<users, userClock>>
           ELSE /\ users' = rows
                /\ userClock' = userClock + 1
                /\ req' = [req EXCEPT ![r] = Respond(q, 201, "", <<createdUser>>)]
    /\ UNCHANGED <<departments, subjects, classes, enrollments, nextEnrollmentId,
                   nextDepartmentId, nextClassId, inserted>>

-----------------------------------------------------------------------------
(* PUT /api/users/:id *)

StartUserUpdate(r, session, userId, body) ==
    /\ Free(r)
    /\ LET q == [Arrive(UsersPut, session, UsersChain(UsersPut))
                    EXCEPT !.userId = userId, !.body = body]
       IN  req' = [req EXCEPT ![r] =
                IF q.pc = "done" THEN q
                ELSE IF ~userIdParamSchema(q) \/ ~userUpdateSchema(body)
                     THEN Catch(q, "validation", UserCatchMessage(UsersPut))
                ELSE Await(q, "getUser")]
    /\ UNCHANGED store

\* if (email): the parsed email is a non-empty string whenever the body has one
GivenEmail(b) == Has(b, "email") /\ Trim(b.email) # <<>>

UserUpdate_getUser(r) ==
    /\ req[r].route = UsersPut
    /\ req[r].pc = "getUser"
    /\ LET q == StoreCall(req[r])
       IN  req' = [req EXCEPT ![r] =
                IF getUserById(q.userId) = {}
                THEN Respond(q, 404, "User not found", <<>>)
                ELSE LET found == [q EXCEPT !.existing = OneRow(getUserById(q.userId))]
                     IN  IF GivenEmail(q.body) THEN Await(found, "getUserByEmail")
                         ELSE Await(found, "update")]
    /\ UNCHANGED store

UserUpdate_getUserByEmail(r) ==
    /\ req[r].route = UsersPut
    /\ req[r].pc = "getUserByEmail"
    /\ LET q == StoreCall(req[r])
       IN  req' = [req EXCEPT ![r] =
                IF \E existingEmail \in getUserByEmail(Trim(q.body.email)) :
                       existingEmail.id # q.userId
                THEN Respond(q, 409, "Email already exists", <<>>)
                ELSE Await(q, "update")]
    /\ UNCHANGED store

\* the keys of updateValues: name, email, image, imageCldPubId and role when
\* their value is truthy (emailVerified is not destructured; null is falsy)
UserUpdateValues(b) ==
    {k \in {"name", "email", "role"} : Has(b, k)}
    \cup {k \in {"image", "imageCldPubId"} : Has(b, k) /\ b[k] \notin {Null, ""}}

UpdatedUser(u, b) ==
    LET set == UserUpdateValues(b)
    IN  [u EXCEPT !.name = IF "name" \in set THEN Trim(b.name) ELSE @,
                  !.email = IF "email" \in set THEN Trim(b.email) ELSE @,
                  !.image = IF "image" \in set THEN b.image ELSE @,
                  !.imageCldPubId = IF "imageCldPubId" \in set
                                    THEN b.imageCldPubId ELSE @,
                  !.role = IF "role" \in set THEN b.role ELSE @]

\* db.update(user).set(updateValues).where(eq(user.id, userId)).returning():
\* set() throws on an empty updateValues
UserUpdate_update(r) ==
    /\ req[r].route = UsersPut
    /\ req[r].pc = "update"
    /\ LET q == StoreCall(req[r])
           rows == {IF u.id = q.userId THEN UpdatedUser(u, q.body) ELSE u : u \in users}
       IN  IF UserUpdateValues(q.body) = {}
           THEN /\ req' = [req EXCEPT ![r] =
                              Catch(q, "no_values", UserCatchMessage(UsersPut))]
                /\ UNCHANGED users
           ELSE IF ~user_email_unique(rows)
           THEN /\ req' = [req EXCEPT ![r] =
                              Catch(q, "unique", UserCatchMessage(UsersPut))]
                /\ UNCHANGED users
           ELSE IF getUserById(q.userId) = {}
           THEN /\ req' = [req EXCEPT ![r] =
                              Respond(q, 404, "User not found", <<>>)]
                /\ UNCHANGED users
           ELSE /\ users' = rows
                /\ req' = [req EXCEPT ![r] =
                              Respond(q, 200, "",
                                      OneRow({u \in rows : u.id = q.userId}))]
    /\ UNCHANGED <<departments, subjects, classes, enrollments, nextEnrollmentId,
                   nextDepartmentId, nextClassId, userClock, inserted>>

-----------------------------------------------------------------------------
(* DELETE /api/users/:id *)

StartUserDelete(r, session, userId) ==
    /\ Free(r)
    /\ LET q == [Arrive(UsersDelete, session, UsersChain(UsersDelete))
                    EXCEPT !.userId = userId]
       IN  req' = [req EXCEPT ![r] =
                IF q.pc = "done" THEN q
                ELSE IF ~userIdParamSchema(q)
                     THEN Catch(q, "validation", UserCatchMessage(UsersDelete))
                ELSE Await(q, "delete")]
    /\ UNCHANGED store

\* db.delete(user).where(eq(user.id, userId)).returning(): classes.teacher_id
\* restricts the delete, enrollments.student_id cascades
UserDelete_delete(r) ==
    /\ req[r].route = UsersDelete
    /\ req[r].pc = "delete"
    /\ LET q == StoreCall(req[r])
           deletedUser == getUserById(q.userId)
           cascaded == {e \in enrollments : e.studentId = q.userId}
       IN  IF deletedUser = {}
           THEN /\ req' = [req EXCEPT ![r] =
                              Respond(q, 404, "User not found", <<>>)]
                /\ UNCHANGED <<users, enrollments, inserted>>
           ELSE IF \E c \in classes : c.teacherId = q.userId
           THEN /\ req' = [req EXCEPT ![r] =
                              Catch(q, "foreign_key", UserCatchMessage(UsersDelete))]
                /\ UNCHANGED <<users, enrollments, inserted>>
           ELSE /\ users' = users \ deletedUser
                /\ enrollments' = enrollments \ cascaded
                /\ inserted' = {l \in inserted : \A e \in cascaded : e.id # l.id}
                /\ req' = [req EXCEPT ![r] = Respond(q, 200, "", OneRow(deletedUser))]
    /\ UNCHANGED <<departments, subjects, classes, nextEnrollmentId,
                   nextDepartmentId, nextClassId, userClock>>

-----------------------------------------------------------------------------
(* GET /api/users/:id *)

StartUserGet(r, session, userId) ==
    /\ Free(r)
    /\ LET q == [Arrive(UsersGet, session, UsersChain(UsersGet))
                    EXCEPT !.userId = userId]
       IN  req' = [req EXCEPT ![r] =
                IF q.pc = "done" THEN q
                ELSE IF ~userIdParamSchema(q)
                     THEN Catch(q, "validation", UserCatchMessage(UsersGet))
                ELSE Await(q, "get")]
    /\ UNCHANGED store

UserGet_get(r) ==
    /\ req[r].route = UsersGet
    /\ req[r].pc = "get"
    /\ LET q == StoreCall(req[r])
           userRecord == getUserById(q.userId)
       IN  req' = [req EXCEPT ![r] =
                IF userRecord = {}
                THEN Respond(q, 404, "User not found", <<>>)
                ELSE Respond(q, 200, "", OneRow(userRecord))]
    /\ UNCHANGED store

-----------------------------------------------------------------------------
(* GET /api/users *)

\* orderBy(desc(user.createdAt))
RECURSIVE NewestUsersFirst(_)
NewestUsersFirst(rows) ==
    IF rows = {} THEN <<>>
    ELSE LET newest == CHOOSE x \in rows : \A y \in rows : y.createdAt <= x.createdAt
         IN  <<newest>> \o NewestUsersFirst(rows \ {newest})

\* and(...filterConditions): eq(user.role, role), ilike(user.name, `%${search}%`)
UsersWhere(q) ==
    {u \in users :
        /\ Has(q.body, "role") => u.role = q.body.role
        /\ Has(q.body, "search") => ILike(u.name, Trim(q.body.search))}

StartUserList(r, session, query, page, limit) ==
    /\ Free(r)
    /\ LET q == [Arrive(UsersList, session, UsersChain(UsersList))
                    EXCEPT !.body = query, !.page = page, !.limit = limit]
       IN  req' = [req EXCEPT ![r] =
                IF q.pc = "done" THEN q
                ELSE IF ~userListQuerySchema(q)
                     THEN Catch(q, "validation", UserCatchMessage(UsersList))
                ELSE Await(q, "count")]
    /\ UNCHANGED store

UserList_count(r) ==
    /\ req[r].route = UsersList
    /\ req[r].pc = "count"
    /\ LET q == StoreCall(req[r])
       IN  req' = [req EXCEPT ![r] =
                Await([q EXCEPT !.totalCount = Cardinality(UsersWhere(q))], "list")]
    /\ UNCHANGED store

UserList_list(r) ==
    /\ req[r].route = UsersList
    /\ req[r].pc = "list"
    /\ LET q == StoreCall(req[r])
           usersList == PageSlice(NewestUsersFirst(UsersWhere(q)),
                                  LimitPerPage(q), Offset(q))
       IN  req' = [req EXCEPT ![r] =
                [Respond(q, 200, "", usersList) EXCEPT !.pagination =
                    [page |-> CurrentPage(q), limit |-> LimitPerPage(q),
                     total |-> q.totalCount,
                     totalPages |-> Ceil(q.totalCount, LimitPerPage(q))]]]
    /\ UNCHANGED store

-----------------------------------------------------------------------------
(* Specification: the users router, one request at a time, callers of every *)
(* role and unauthenticated callers, well-formed and malformed inputs       *)

UserBody(keys, id, name, email, role) ==
    [kind |-> "user", keys |-> keys, wrongType |-> {}, id |-> id, name |-> name,
     email |-> email, emailVerified |-> TRUE, image |-> Null,
     imageCldPubId |-> Null, role |-> role]

Ned == <<" ", "N", "e", "d">>

UserCreateBodies ==
    { UserBody({"id", "name", "email"}, "un", Ned, EmailOf("n"), "student"),
      UserBody({"id", "name", "email", "role"}, "un", Ned, EmailOf("s"), "admin"),
      UserBody({"id", "name", "email"}, "us", Ned, EmailOf("n"), "student"),
      UserBody({"id", "name"}, "un", Ned, EmailOf("n"), "student"),
      UserBody({"id", "name", "email", "isAdmin"}, "un", Ned, EmailOf("n"), "student"),
      UserBody({"id", "name", "email"}, "un", Ned, <<"n", "x">>, "student"),
      [UserBody({"id", "name", "email"}, "un", Ned, EmailOf("n"), "student")
          EXCEPT !.wrongType = {"name"}] }

UserUpdateBodies ==
    { UserBody({"name"}, "", Ned, <<>>, "student"),
      UserBody({"email"}, "", <<>>, EmailOf("s"), "student"),
      UserBody({"role"}, "", <<>>, <<>>, "admin"),
      UserBody({"role"}, "", <<>>, <<>>, "owner"),
      UserBody({"emailVerified"}, "", <<>>, <<>>, "student"),
      UserBody({"name", "emailVerified"}, "", Ned, <<>>, "student"),
      UserBody({"image"}, "", <<>>, <<>>, "student"),
      UserBody({}, "", <<>>, <<>>, "student") }

UserIdInputs == {"", "us", "ut", "un"}

UserQuery(keys, role, search) ==
    [kind |-> "userQuery", keys |-> keys, wrongType |-> {}, role |-> role,
     search |-> search]

\* the query of a list request, with its page and limit
UserQueries ==
    { [query |-> UserQuery({}, "", <<>>), page |-> MissingNum, limit |-> MissingNum],
      [query |-> UserQuery({"role", "limit"}, "student", <<>>),
       page |-> MissingNum, limit |-> 1],
      [query |-> UserQuery({"search", "page", "limit"}, "", <<"a">>),
       page |-> 2, limit |-> 1],
      [query |-> UserQuery({"page"}, "", <<>>), page |-> 0, limit |-> MissingNum],
      [query |-> UserQuery({"limit"}, "", <<>>), page |-> MissingNum, limit |-> 101],
      [query |-> UserQuery({"search"}, "", <<" ">>),
       page |-> MissingNum, limit |-> MissingNum],
      [query |-> UserQuery({"role", "sort"}, "teacher", <<>>),
       page |-> MissingNum, limit |-> MissingNum] }

\* the seeded store with the student enrolled in class 1
UsersInit ==
    /\ users = SeedUsers
    /\ departments = SeedDepartments
    /\ subjects = SeedSubjects
    /\ classes = SeedClasses
    /\ enrollments = {[id |-> 1, studentId |-> "us", classId |-> 1]}
    /\ nextEnrollmentId = 2
    /\ nextDepartmentId = 2
    /\ nextClassId = NumClasses + 1
    /\ userClock = 4
    /\ req = [r \in Reqs |-> IdleReq]
    /\ inserted = {[id |-> 1, studentId |-> "us", classId |-> 1, by |-> "us"]}

UserHandlerStep(r) ==
    \/ UserCreate_getUserByEmail(r)
    \/ UserCreate_insert(r)
    \/ UserUpdate_getUser(r)
    \/ UserUpdate_getUserByEmail(r)
    \/ UserUpdate_update(r)
    \/ UserDelete_delete(r)
    \/ UserGet_get(r)
    \/ UserList_count(r)
    \/ UserList_list(r)
    \/ Finish(r)

UsersNext ==
    \/ \E session \in Sessions, body \in UserCreateBodies :
          StartUserCreate(1, session, body)
    \/ \E session \in Sessions, userId \in UserIdInputs, body \in UserUpdateBodies :
          StartUserUpdate(1, session, userId, body)
    \/ \E session \in Sessions, userId \in UserIdInputs :
          StartUserDelete(1, session, userId)
    \/ \E session \in Sessions, userId \in UserIdInputs :
          StartUserGet(1, session, userId)
    \/ \E session \in Sessions, in \in UserQueries :
          StartUserList(1, session, in.query, in.page, in.limit)
    \/ UserHandlerStep(1)

UsersSpec == UsersInit /\ [][UsersNext]_vars

-----------------------------------------------------------------------------
(* Properties of the users router *)

\* C5: every /api/users endpoint is admin only: a request whose caller is not
\* an authenticated admin issues no store call (it reads and changes no user
\* row) and is rejected, 401 when unauthenticated and 403 when the caller is a
\* teacher or a student.
C5_UsersAdminOnly ==
    \A r \in Reqs :
        (req[r].route \in UserRoutes /\ req[r].role # "admin") =>
            /\ req[r].storeCalls = 0
            /\ Done(r) => req[r].status = (IF req[r].session = NoUser THEN 401 ELSE 403)

\* the input of a users request passes the schemas its handler parses it with
UserInputValid(q) ==
    CASE q.route = UsersList -> userListQuerySchema(q)
      [] q.route = UsersPost -> userCreateSchema(q.body)
      [] q.route = UsersPut -> userIdParamSchema(q) /\ userUpdateSchema(q.body)
      [] OTHER -> userIdParamSchema(q)

\* C10: a request whose params, query or body fail the endpoint's validation
\* schema is answered with 400, and no store call is issued for it.
C10_InvalidInputIs400 ==
    \A r \in Reqs :
        (req[r].route \in UserRoutes /\ Done(r) /\ ~UserInputValid(req[r])) =>
            (req[r].status = 400 /\ req[r].storeCalls = 0)

-----------------------------------------------------------------------------
(* POST /api/classes: no middleware, no validation schema; the body is       *)
(* destructured and handed to the insert                                     *)

ClassesPost == "POST /api/classes"

\* app.use("/api/classes", classesRouter); router.post("/", async (req, res) => ...
ClassesChain(route) == <<>>

classStatusEnum == {"active", "inactive", "archived"}

\* columns of table classes declared notNull() without a default
classes_not_null(b) == Has(b, "name") /\ Has(b, "subjectId") /\ Has(b, "teacherId")

\* subject_id references subjects.id, teacher_id references user.id
classes_fk(rows) ==
    \A c \in rows : /\ \E sub \in subjects : sub.id = c.subjectId
                    /\ getUserById(c.teacherId) # {}

classes_invite_code_unique(rows) ==
    \A c1, c2 \in rows : c1.inviteCode = c2.inviteCode => c1.id = c2.id

ClassCreatesInFlight ==
    Cardinality({o \in Reqs : req[o].route = ClassesPost
                              /\ req[o].pc \notin {"idle", "done"}})

StartClassCreate(r, session, body) ==
    /\ Free(r)
    /\ nextClassId + ClassCreatesInFlight <= MaxClassId
    /\ LET q == [Arrive(ClassesPost, session, ClassesChain(ClassesPost))
                    EXCEPT !.body = body]
       IN  req' = [req EXCEPT ![r] = IF q.pc = "done" THEN q ELSE Await(q, "insert")]
    /\ UNCHANGED store

\* db.insert(classes).values({...}).returning({ id }); the invite code is
\* Math.random().toString(36).substring(2, 9): any code, a stored one included
ClassCreate_insert(r) ==
    /\ req[r].route = ClassesPost
    /\ req[r].pc = "insert"
    /\ \E i \in DOMAIN InviteCodes :
        LET q == StoreCall(req[r])
            b == q.body
            createdClass ==
                ClassRow(nextClassId, InviteCodes[i], b.name, b.subjectId, b.teacherId,
                         IF Has(b, "capacity") THEN b.capacity ELSE 50,
                         IF Has(b, "status") THEN b.status ELSE "active")
            rows == classes \cup {createdClass}
        IN  IF \/ b.wrongType # {}
               \/ ~classes_not_null(b)
               \/ createdClass.status \notin classStatusEnum
               \/ ~classes_invite_code_unique(rows)
               \/ ~classes_fk(rows)
            THEN /\ req' = [req EXCEPT ![r] =
                               Catch(q, "insert", "Failed to create class")]
                 /\ UNCHANGED <<classes, nextClassId>>
            ELSE /\ classes' = rows
                 /\ nextClassId' = nextClassId + 1
                 /\ req' = [req EXCEPT ![r] =
                               [Respond(q, 201, "", <<[id |-> createdClass.id]>>)
                                   EXCEPT !.createdId = createdClass.id]]
    /\ UNCHANGED <<users, departments, subjects, enrollments, nextEnrollmentId,
                   nextDepartmentId, userClock, inserted>>

-----------------------------------------------------------------------------
(* Specification: POST /api/classes, requests interleaved, callers of every *)
(* role and unauthenticated callers                                         *)

ClassBody(keys, name, subjectId, teacherId, status) ==
    [kind |-> "class", keys |-> keys, wrongType |-> {}, name |-> name,
     subjectId |-> subjectId, teacherId |-> teacherId, capacity |-> 30,
     status |-> status]

ClassBodies ==
    { ClassBody({"name", "subjectId", "teacherId"}, "Logic", 1, "ut", ""),
      ClassBody({"name", "subjectId", "teacherId", "capacity", "status"},
                "Logic", 1, "us", "archived"),
      ClassBody({"name", "subjectId", "teacherId"}, "Logic", 2, "ut", ""),
      ClassBody({"name", "subjectId", "teacherId"}, "Logic", 1, "ux", ""),
      ClassBody({"name", "subjectId", "teacherId", "status"}, "Logic", 1, "ut", "open"),
      ClassBody({"subjectId", "teacherId"}, "", 1, "ut", ""),
      [ClassBody({"name", "subjectId", "teacherId"}, "Logic", 1, "ut", "")
          EXCEPT !.wrongType = {"subjectId"}] }

ClassesNext ==
    \E r \in Reqs :
        \/ \E session \in Sessions, body \in ClassBodies :
              StartClassCreate(r, session, body)
        \/ ClassCreate_insert(r)
        \/ Finish(r)

ClassesSpec == Init /\ [][ClassesNext]_vars

\* C7: writing a class is for admin and teacher only: a POST /api/classes from
\* an unauthenticated caller or from a student inserts no class row and is
\* rejected, with 401 or with 403.
C7_ClassWriteGated ==
    \A r \in Reqs :
        (req[r].route = ClassesPost /\ req[r].role \in {"none", "student"}) =>
            /\ req[r].storeCalls = 0
            /\ req[r].createdId = 0
            /\ Done(r) => req[r].status = (IF req[r].session = NoUser THEN 401 ELSE 403)

-----------------------------------------------------------------------------
(* Routes of the departments router and their middleware chains *)

DepartmentsList == "GET /api/departments"
DepartmentsGet == "GET /api/departments/:id"
DepartmentsSubjects == "GET /api/departments/:id/subjects"
DepartmentsClasses == "GET /api/departments/:id/classes"
DepartmentsUsers == "GET /api/departments/:id/users"
DepartmentsPost == "POST /api/departments"
DepartmentsPut == "PUT /api/departments/:id"
DepartmentsDelete == "DELETE /api/departments/:id"

DepartmentReadRoutes ==
    {DepartmentsList, DepartmentsGet, DepartmentsSubjects, DepartmentsClasses,
     DepartmentsUsers}

DepartmentWriteRoutes == {DepartmentsPost, DepartmentsPut, DepartmentsDelete}

DepartmentRoutes == DepartmentReadRoutes \cup DepartmentWriteRoutes

\* the chain with the teacher let through to the writes
DepartmentsChain_teacherWrites(route) ==
    <<Authenticate,
      AuthorizeRoles(IF route \in DepartmentWriteRoutes THEN {"admin", "teacher"}
                     ELSE {"admin", "teacher", "student"})>>

\* the chain with the role check installed before the session check
DepartmentsChain_rolesFirst(route) ==
    <<AuthorizeRoles(IF route \in DepartmentWriteRoutes THEN {"admin"}
                     ELSE {"admin", "teacher", "student"}),
      Authenticate>>

\* authenticate, authorizeRoles("admin") on POST, PUT and DELETE;
\* authenticate, authorizeRoles("admin", "teacher", "student") on every GET
DepartmentsChain(route) ==
    <<Authenticate,
      AuthorizeRoles(IF route \in DepartmentWriteRoutes THEN {"admin"}
                     ELSE {"admin", "teacher", "student"})>>

DepartmentCatchMessage(route) ==
    CASE route = DepartmentsPost -> "Failed to create department"
      [] route = DepartmentsPut -> "Failed to update department"
      [] route = DepartmentsDelete -> "Failed to delete department"
      [] route = DepartmentsList -> "Failed to fetch departments"

getDepartmentByCode(code) == {d \in departments : d.code = code}

getDepartmentById(departmentId) == RowsById(departments, departmentId)

\* a store without the unique constraint on departments.code
departments_code_not_unique(rows) == TRUE

\* departments.code is unique()
departments_code_unique(rows) ==
    \A d1, d2 \in rows : d1.code = d2.code => d1.id = d2.id

-----------------------------------------------------------------------------
(* Validation schemas of the departments router *)

DepartmentKeys == {"name", "code", "description"}

departmentIdParamSchema(q) == q.id >= 1

departmentCreateSchema(b) ==
    /\ b.keys \subseteq DepartmentKeys
    /\ b.wrongType = {}
    /\ Has(b, "name") /\ b.name # ""
    /\ Has(b, "code") /\ b.code # ""

departmentUpdateSchema(b) ==
    /\ b.keys \subseteq DepartmentKeys
    /\ b.wrongType = {}
    /\ Has(b, "name") => b.name # ""
    /\ Has(b, "code") => b.code # ""
    /\ b.keys # {}

-----------------------------------------------------------------------------
(* POST /api/departments *)

DepartmentCreatesInFlight ==
    Cardinality({o \in Reqs : req[o].route = DepartmentsPost
                              /\ req[o].pc \notin {"idle", "done"}})

StartDepartmentCreate(r, session, body) ==
    /\ Free(r)
    /\ nextDepartmentId + DepartmentCreatesInFlight <= MaxDepartmentId
    /\ LET q == [Arrive(DepartmentsPost, session, DepartmentsChain(DepartmentsPost))
                    EXCEPT !.body = body]
       IN  req' = [req EXCEPT ![r] =
                IF q.pc = "done" THEN q
                ELSE IF ~departmentCreateSchema(body)
                     THEN Catch(q, "validation", DepartmentCatchMessage(DepartmentsPost))
                ELSE Await(q, "getDepartmentByCode")]
    /\ UNCHANGED store

\* the create with its advisory code check left out
DepartmentCreate_withoutCodeCheck(r) ==
    /\ req[r].route = DepartmentsPost
    /\ req[r].pc = "getDepartmentByCode"
    /\ req' = [req EXCEPT ![r] = Await(StoreCall(req[r]), "insert")]
    /\ UNCHANGED store

\* const existingDepartment = await getDepartmentByCode(code); if (...) 409
DepartmentCreate_getDepartmentByCode(r) ==
    /\ req[r].route = DepartmentsPost
    /\ req[r].pc = "getDepartmentByCode"
    /\ LET q == StoreCall(req[r])
       IN  req' = [req EXCEPT ![r] =
                IF getDepartmentByCode(q.body.code) # {}
                THEN Respond(q, 409, "Department code already exists", <<>>)
                ELSE Await(q, "insert")]
    /\ UNCHANGED store

DepartmentCreate_insert(r) ==
    /\ req[r].route = DepartmentsPost
    /\ req[r].pc = "insert"
    /\ LET q == StoreCall(req[r])
           b == q.body
           createdDepartment ==
               \* createdAt defaultNow(): a later insert has a later time, as it
               \* has a larger identity value
               [id |-> nextDepartmentId, code |-> b.code, name |-> b.name,
                description |-> IF Has(b, "description") THEN b.description ELSE Null,
                createdAt |-> nextDepartmentId]
           rows == departments \cup {createdDepartment}
       IN  IF ~departments_code_unique(rows)
           THEN /\ req' = [req EXCEPT ![r] =
                      Catch(q, "unique", DepartmentCatchMessage(DepartmentsPost))]
                /\ UNCHANGED <<departments, nextDepartmentId>>
           ELSE /\ departments' = rows
                /\ nextDepartmentId' = nextDepartmentId + 1
                /\ req' = [req EXCEPT ![r] =
                      Await([q EXCEPT !.createdId = createdDepartment.id], "fetch")]
    /\ UNCHANGED <<users, subjects, classes, enrollments, nextEnrollmentId,
                   nextClassId, userClock, inserted>>

DepartmentCreate_fetch(r) ==
    /\ req[r].route = DepartmentsPost
    /\ req[r].pc = "fetch"
    /\ LET q == StoreCall(req[r])
       IN  req' = [req EXCEPT ![r] =
                Respond(q, 201, "", OneRow(getDepartmentById(q.createdId)))]
    /\ UNCHANGED store

-----------------------------------------------------------------------------
(* PUT /api/departments/:id *)

StartDepartmentUpdate(r, session, id, body) ==
    /\ Free(r)
    /\ LET q == [Arrive(DepartmentsPut, session, DepartmentsChain(DepartmentsPut))
                    EXCEPT !.id = id, !.body = body]
       IN  req' = [req EXCEPT ![r] =
                IF q.pc = "done" THEN q
                ELSE IF ~departmentIdParamSchema(q) \/ ~departmentUpdateSchema(body)
                     THEN Catch(q, "validation", DepartmentCatchMessage(DepartmentsPut))
                ELSE Await(q, "getDepartment")]
    /\ UNCHANGED store

DepartmentUpdate_getDepartment(r) ==
    /\ req[r].route = DepartmentsPut
    /\ req[r].pc = "getDepartment"
    /\ LET q == StoreCall(req[r])
       IN  req' = [req EXCEPT ![r] =
                IF getDepartmentById(q.id) = {}
                THEN Respond(q, 404, "Department not found", <<>>)
                ELSE LET found == [q EXCEPT !.existing =
                                       OneRow(getDepartmentById(q.id))]
                     IN  IF Has(q.body, "code") /\ q.body.code # ""
                         THEN Await(found, "getDepartmentByCode")
                         ELSE Await(found, "update")]
    /\ UNCHANGED store

\* the code check of the update without the exclusion of the updated record
DepartmentUpdate_anyRowWithCode(r) ==
    /\ req[r].route = DepartmentsPut
    /\ req[r].pc = "getDepartmentByCode"
    /\ LET q == StoreCall(req[r])
       IN  req' = [req EXCEPT ![r] =
                IF getDepartmentByCode(q.body.code) # {}
                THEN Respond(q, 409, "Department code already exists", <<>>)
                ELSE Await(q, "update")]
    /\ UNCHANGED store

\* existingDepartmentWithCode && existingDepartmentWithCode.id !== departmentId
DepartmentUpdate_getDepartmentByCode(r) ==
    /\ req[r].route = DepartmentsPut
    /\ req[r].pc = "getDepartmentByCode"
    /\ LET q == StoreCall(req[r])
       IN  req' = [req EXCEPT ![r] =
                IF \E existingDepartmentWithCode \in getDepartmentByCode(q.body.code) :
                       existingDepartmentWithCode.id # q.id
                THEN Respond(q, 409, "Department code already exists", <<>>)
                ELSE Await(q, "update")]
    /\ UNCHANGED store

\* the keys of updateValues: name, code, description when their value is truthy
DepartmentUpdateValues(b) ==
    {k \in DepartmentKeys : Has(b, k) /\ b[k] \notin {Null, ""}}

UpdatedDepartment(d, b) ==
    LET set == DepartmentUpdateValues(b)
    IN  [d EXCEPT !.name = IF "name" \in set THEN b.name ELSE @,
                  !.code = IF "code" \in set THEN b.code ELSE @,
                  !.description = IF "description" \in set THEN b.description ELSE @]

\* db.update(departments).set(updateValues).where(eq(departments.id, id)):
\* set() throws on an empty updateValues
DepartmentUpdate_update(r) ==
    /\ req[r].route = DepartmentsPut
    /\ req[r].pc = "update"
    /\ LET q == StoreCall(req[r])
           rows == {IF d.id = q.id THEN UpdatedDepartment(d, q.body) ELSE d
                       : d \in departments}
       IN  IF DepartmentUpdateValues(q.body) = {}
           THEN /\ req' = [req EXCEPT ![r] =
                      Catch(q, "no_values", DepartmentCatchMessage(DepartmentsPut))]
                /\ UNCHANGED departments
           ELSE IF ~departments_code_unique(rows)
           THEN /\ req' = [req EXCEPT ![r] =
                      Catch(q, "unique", DepartmentCatchMessage(DepartmentsPut))]
                /\ UNCHANGED departments
           ELSE /\ departments' = rows
                /\ req' = [req EXCEPT ![r] = Await(q, "refetch")]
    /\ UNCHANGED <<users, subjects, classes, enrollments, nextEnrollmentId,
                   nextDepartmentId, nextClassId, userClock, inserted>>

DepartmentUpdate_refetch(r) ==
    /\ req[r].route = DepartmentsPut
    /\ req[r].pc = "refetch"
    /\ LET q == StoreCall(req[r])
       IN  req' = [req EXCEPT ![r] =
                Respond(q, 200, "", OneRow(getDepartmentById(q.id)))]
    /\ UNCHANGED store

-----------------------------------------------------------------------------
(* DELETE /api/departments/:id *)

StartDepartmentDelete(r, session, id) ==
    /\ Free(r)
    /\ LET q == [Arrive(DepartmentsDelete, session,
                        DepartmentsChain(DepartmentsDelete)) EXCEPT !.id = id]
       IN  req' = [req EXCEPT ![r] =
                IF q.pc = "done" THEN q
                ELSE IF ~departmentIdParamSchema(q)
                     THEN Catch(q, "validation",
                                DepartmentCatchMessage(DepartmentsDelete))
                ELSE Await(q, "delete")]
    /\ UNCHANGED store

\* a store without the restriction on subjects.department_id
subjects_department_id_no_action(goneDepartmentIds) == FALSE

\* subjects.department_id references departments.id ON DELETE restrict: the
\* delete of a department that a subject references is refused
subjects_department_id_restrict(goneDepartmentIds) ==
    \E sub \in subjects : sub.departmentId \in goneDepartmentIds

\* db.delete(departments).where(eq(departments.id, id)).returning({ id }):
\* subjects.department_id restricts the delete
DepartmentDelete_delete(r) ==
    /\ req[r].route = DepartmentsDelete
    /\ req[r].pc = "delete"
    /\ LET q == StoreCall(req[r])
           deletedRows == getDepartmentById(q.id)
       IN  IF subjects_department_id_restrict({d.id : d \in deletedRows})
           THEN /\ req' = [req EXCEPT ![r] =
                      Catch(q, "foreign_key", DepartmentCatchMessage(DepartmentsDelete))]
                /\ UNCHANGED departments
           ELSE /\ departments' = departments \ deletedRows
                /\ req' = [req EXCEPT ![r] =
                      IF deletedRows = {}
                      THEN Respond(q, 404, "Department not found", <<>>)
                      ELSE Respond(q, 200, "", <<>>)]
    /\ UNCHANGED <<users, subjects, classes, enrollments, nextEnrollmentId,
                   nextDepartmentId, nextClassId, userClock, inserted>>

-----------------------------------------------------------------------------
(* GET /api/departments *)

DepartmentListKeys == {"search", "page", "limit"}

\* departmentListQuerySchema: search optional and not blank, page >= 1,
\* limit in 1..100, no other key
departmentListQuerySchema(q) ==
    /\ q.body.keys \subseteq DepartmentListKeys
    /\ q.body.wrongType = {}
    /\ Has(q.body, "search") => Trim(q.body.search) # <<>>
    /\ Has(q.body, "page") => q.page >= 1
    /\ Has(q.body, "limit") => (q.limit >= 1 /\ q.limit <= 100)

\* the characters of the department names and codes of the model
DepartmentChars(text) ==
    CASE text = "CS" -> <<"C", "S">>
      [] text = "cs" -> <<"c", "s">>
      [] text = "MA" -> <<"M", "A">>
      [] text = "PH" -> <<"P", "H">>
      [] text = "Computing" -> <<"C", "o", "m", "p", "u", "t", "i", "n", "g">>
      [] text = "Computing 2" ->
             <<"C", "o", "m", "p", "u", "t", "i", "n", "g", " ", "2">>
      [] text = "Maths" -> <<"M", "a", "t", "h", "s">>
      [] text = "Mathematics" ->
             <<"M", "a", "t", "h", "e", "m", "a", "t", "i", "c", "s">>
      [] text = "Physics" -> <<"P", "h", "y", "s", "i", "c", "s">>
      [] text = "Science" -> <<"S", "c", "i", "e", "n", "c", "e">>
      [] text = "Other" -> <<"O", "t", "h", "e", "r">>
      [] OTHER -> <<>>

\* or(ilike(departments.name, `%${search}%`), ilike(departments.code, `%${search}%`))
DepartmentsWhere(q) ==
    {d \in departments :
        Has(q.body, "search") =>
            \/ ILike(DepartmentChars(d.name), Trim(q.body.search))
            \/ ILike(DepartmentChars(d.code), Trim(q.body.search))}

\* an inner join in place of the left join: a department without a subject
\* has no joined row and no group
DepartmentsJoinSubjects_inner(rows) ==
    {d @@ [totalSubjects |-> Cardinality({sub \in subjects : sub.departmentId = d.id})]
        : d \in {x \in rows : \E sub \in subjects : sub.departmentId = x.id}}

\* select({...getTableColumns(departments), totalSubjects: count(subjects.id)})
\* .from(departments).leftJoin(subjects, eq(departments.id, subjects.departmentId))
\* .groupBy(departments.id): one row for each department, count(subjects.id)
\* counts the joined subjects and is 0 for the null row of the left join
DepartmentsJoinSubjects(rows) ==
    {d @@ [totalSubjects |-> Cardinality({sub \in subjects : sub.departmentId = d.id})]
        : d \in rows}

\* orderBy(desc(departments.createdAt)): every order of the rows in which no
\* row precedes a newer one; rows of equal createdAt come in any order
RECURSIVE NewestDepartmentsFirst(_)
NewestDepartmentsFirst(rows) ==
    IF rows = {} THEN {<<>>}
    ELSE UNION { {<<x>> \o rest : rest \in NewestDepartmentsFirst(rows \ {x})}
                 : x \in {y \in rows : \A z \in rows : z.createdAt <= y.createdAt} }

StartDepartmentList(r, session, query, page, limit) ==
    /\ Free(r)
    /\ LET q == [Arrive(DepartmentsList, session, DepartmentsChain(DepartmentsList))
                    EXCEPT !.body = query, !.page = page, !.limit = limit]
       IN  req' = [req EXCEPT ![r] =
                IF q.pc = "done" THEN q
                ELSE IF ~departmentListQuerySchema(q)
                     THEN Catch(q, "validation", DepartmentCatchMessage(DepartmentsList))
                ELSE Await(q, "count")]
    /\ UNCHANGED store

\* select count(*) from departments where whereClause
DepartmentList_count(r) ==
    /\ req[r].route = DepartmentsList
    /\ req[r].pc = "count"
    /\ LET q == StoreCall(req[r])
       IN  req' = [req EXCEPT ![r] =
                Await([q EXCEPT !.totalCount = Cardinality(DepartmentsWhere(q))],
                      "list")]
    /\ UNCHANGED store

DepartmentList_list(r) ==
    /\ req[r].route = DepartmentsList
    /\ req[r].pc = "list"
    /\ LET q == StoreCall(req[r])
       IN  \E ordered \in NewestDepartmentsFirst(
                              DepartmentsJoinSubjects(DepartmentsWhere(q))) :
             req' = [req EXCEPT ![r] =
                [Respond(q, 200, "", PageSlice(ordered, LimitPerPage(q), Offset(q)))
                    EXCEPT !.pagination =
                        [page |-> CurrentPage(q), limit |-> LimitPerPage(q),
                         total |-> q.totalCount,
                         totalPages |-> Ceil(q.totalCount, LimitPerPage(q))]]]
    /\ UNCHANGED store

-----------------------------------------------------------------------------
(* Specification: the write routes of the departments router, one request   *)
(* at a time, callers of every role and unauthenticated callers             *)

DepartmentBody(keys, name, code) ==
    [kind |-> "department", keys |-> keys, wrongType |-> {}, name |-> name,
     code |-> code, description |-> Null]

DepartmentCreateBodies ==
    { DepartmentBody({"name", "code"}, "Maths", "MA"),
      DepartmentBody({"name", "code", "description"}, "Computing 2", "cs"),
      DepartmentBody({"name", "code"}, "Other", "CS"),
      DepartmentBody({"name"}, "Maths", ""),
      DepartmentBody({"name", "code", "dean"}, "Maths", "MA") }

DepartmentUpdateBodies ==
    { DepartmentBody({"name"}, "Science", ""),
      DepartmentBody({"code"}, "", "CS"),
      DepartmentBody({"code"}, "", "MA"),
      DepartmentBody({"description"}, "", ""),
      DepartmentBody({}, "", "") }

DepartmentIdInputs == 0..MaxDepartmentId

DepartmentHandlerStep(r) ==
    \/ DepartmentCreate_getDepartmentByCode(r)
    \/ DepartmentCreate_insert(r)
    \/ DepartmentCreate_fetch(r)
    \/ DepartmentUpdate_getDepartment(r)
    \/ DepartmentUpdate_getDepartmentByCode(r)
    \/ DepartmentUpdate_update(r)
    \/ DepartmentUpdate_refetch(r)
    \/ DepartmentDelete_delete(r)
    \/ Finish(r)

DepartmentsNext ==
    \/ \E session \in Sessions, body \in DepartmentCreateBodies :
          StartDepartmentCreate(1, session, body)
    \/ \E session \in Sessions, id \in DepartmentIdInputs,
          body \in DepartmentUpdateBodies :
          StartDepartmentUpdate(1, session, id, body)
    \/ \E session \in Sessions, id \in DepartmentIdInputs :
          StartDepartmentDelete(1, session, id)
    \/ DepartmentHandlerStep(1)

DepartmentsSpec == Init /\ [][DepartmentsNext]_vars

-----------------------------------------------------------------------------
(* Properties of the departments write routes *)

\* the request in slot r moved in this step
Steps(r) == req'[r] # req[r]

\* C8: a POST /api/departments of an authenticated student or teacher is
\* answered 403 on arrival, whatever its body, without a store call, and every
\* step that changes the departments table (an insert, an update or a delete)
\* is a step of a departments write request whose caller is an admin.
C8_DepartmentWritesAdminOnly ==
    /\ [](\A r \in Reqs :
            (req[r].route = DepartmentsPost /\ req[r].role \in {"student", "teacher"})
                => (Done(r) /\ req[r].status = 403 /\ req[r].storeCalls = 0
                    /\ req[r].createdId = 0))
    /\ [][departments' # departments =>
            \E r \in Reqs : /\ Steps(r)
                            /\ req[r].route \in DepartmentWriteRoutes
                            /\ req[r].role = "admin"]_vars

\* a teacher's POST with a valid body and an unused code was answered 403, and
\* an admin's earlier POST had inserted a department
C8_Witness ==
    /\ req[1].route = DepartmentsPost
    /\ req[1].role = "teacher"
    /\ departmentCreateSchema(req[1].body)
    /\ getDepartmentByCode(req[1].body.code) = {}
    /\ req[1].status = 403
    /\ Cardinality(departments) > Cardinality(SeedDepartments)

-----------------------------------------------------------------------------
(* Specification: the authorization gate.  A request on any route runs the  *)
(* middleware chain installed on that route, one middleware per step, until *)
(* a middleware rejects it or the chain hands it to the handler.            *)

AllRoutes == EnrollmentRoutes \cup DepartmentRoutes \cup UserRoutes \cup {ClassesPost}

ChainOf(route) ==
    IF route \in EnrollmentRoutes THEN EnrollmentsChain(route)
    ELSE IF route \in DepartmentRoutes THEN DepartmentsChain(route)
    ELSE IF route \in UserRoutes THEN UsersChain(route)
    ELSE ClassesChain(route)

\* the routes with a middleware before their handler
GatedRoutes == {route \in AllRoutes : ChainOf(route) # <<>>}

\* the roles every authorizeRoles of the route's chain lets through
AllowedRoles(route) ==
    {role \in Roles :
        \A i \in DOMAIN ChainOf(route) :
            ChainOf(route)[i].mw = "authorizeRoles" => role \in ChainOf(route)[i].roles}

GateArrive(r, route, session) ==
    /\ Free(r)
    /\ req' = [req EXCEPT ![r] =
                  [IdleReq EXCEPT !.route = route, !.session = session,
                                  !.role = Role(session), !.pc = "gate", !.mw = 1]]
    /\ UNCHANGED store

\* the middleware at position mw runs: it responds, or it calls next()
GateStep(r) ==
    /\ req[r].pc = "gate"
    /\ LET q == req[r]
           chain == ChainOf(q.route)
       IN  req' = [req EXCEPT ![r] =
                IF q.mw > Len(chain) THEN Await(q, "handler")
                ELSE LET out == RunMiddleware(chain[q.mw], q.session, q.user)
                     IN  IF out.status = 0
                         THEN [q EXCEPT !.mw = @ + 1, !.user = out.user]
                         ELSE Respond([q EXCEPT !.user = out.user], out.status,
                                      IF out.status = 401 THEN "Unauthorized"
                                      ELSE "Forbidden", <<>>)]
    /\ UNCHANGED store

\* the handler takes the request over: its steps are those of the routers
GateHandler(r) ==
    /\ req[r].pc = "handler"
    /\ req' = [req EXCEPT ![r] = IdleReq]
    /\ UNCHANGED store

GateNext ==
    \E r \in Reqs :
        \/ \E route \in AllRoutes, session \in Sessions : GateArrive(r, route, session)
        \/ GateStep(r)
        \/ GateHandler(r)
        \/ Finish(r)

GateSpec == Init /\ [][GateNext]_vars

\* the request in slot r has left the gate: rejected, or handed to the handler
PastGate(r) == req[r].pc \in {"handler", "done"}

-----------------------------------------------------------------------------
(* Properties of PUT /api/users/:id *)

\* C11: an update whose body contains none of the endpoint's recognized
\* fields is answered with 400 (never 200, never 500) and leaves the target
\* row alone: no store call is issued for it.
C11_EmptyUpdateIs400 ==
    \A r \in Reqs :
        ( /\ Done(r) /\ req[r].route = UsersPut
          /\ userIdParamSchema(req[r])
          /\ req[r].body.keys \cap UserUpdateKeys = {} )
        => (req[r].status = 400 /\ req[r].storeCalls = 0)

\* the PUT in slot r passed validation, targets a stored user and gives no
\* email another user holds
UserPutApplies(r) ==
    LET q == req[r]
    IN  /\ Done(r) /\ q.route = UsersPut
        /\ UserInputValid(q)
        /\ getUserById(q.userId) # {}
        /\ Has(q.body, "email") =>
              \A o \in getUserByEmail(Trim(q.body.email)) : o.id = q.userId

\* C12: after a PUT /api/users/:id that passes validation and targets an
\* existing user, the response is 200 and every field present in the body
\* (name, email, emailVerified, image, imageCldPubId, role; a null image and
\* a body of emailVerified alone included) has the provided value in the
\* stored row.
C12_ProvidedFieldsStored ==
    \A r \in Reqs :
        UserPutApplies(r) =>
            LET b == req[r].body
            IN  /\ req[r].status = 200
                /\ \A u \in getUserById(req[r].userId) :
                      /\ Has(b, "name") => u.name = Trim(b.name)
                      /\ Has(b, "email") => u.email = Trim(b.email)
                      /\ Has(b, "emailVerified") => u.emailVerified = b.emailVerified
                      /\ Has(b, "image") => u.image = b.image
                      /\ Has(b, "imageCldPubId") => u.imageCldPubId = b.imageCldPubId
                      /\ Has(b, "role") => u.role = b.role

-----------------------------------------------------------------------------
(* Properties of POST /api/departments, one request at a time *)

\* C13: a POST /api/departments by an admin with a valid body whose code is
\* (exactly, case-sensitively) the code of a stored department is answered
\* 409, whatever its name and description, and inserts no row.
C13_DuplicateCodeIs409 ==
    \A r \in Reqs :
        ( /\ Done(r) /\ req[r].route = DepartmentsPost
          /\ req[r].role = "admin"
          /\ departmentCreateSchema(req[r].body)
          /\ \E d \in departments : d.code = req[r].body.code /\ d.id # req[r].createdId )
        => /\ req[r].status = 409
           /\ req[r].createdId = 0
           /\ Cardinality(getDepartmentByCode(req[r].body.code)) = 1

\* an admin's POST with a stored code and another name was answered 409, and
\* a POST whose code differs from a stored one only by case was answered 201
C13_Witness ==
    /\ Done(1) /\ req[1].route = DepartmentsPost /\ req[1].role = "admin"
    /\ req[1].status = 409
    /\ \E d \in departments : d.code = req[1].body.code /\ d.name # req[1].body.name
    /\ \E d \in departments : d.code = "cs"

-----------------------------------------------------------------------------
(* Properties of DELETE /api/departments/:id, one request at a time *)

\* C18: a DELETE /api/departments/:id that names a department with at least
\* one subject is answered with a status outside 200..299 for a caller of any
\* role and for an unauthenticated caller, and after the response the
\* department and every subject are still stored.
C18_DeleteWithSubjectsFails ==
    \A r \in Reqs :
        ( /\ Done(r) /\ req[r].route = DepartmentsDelete
          /\ \E sub \in SeedSubjects : sub.departmentId = req[r].id )
        => /\ req[r].status \notin 200..299
           /\ getDepartmentById(req[r].id) # {}
           /\ subjects = SeedSubjects

\* an admin's DELETE of the department of a subject reached the store, was
\* refused there and was answered 500
C18_Witness ==
    /\ Done(1) /\ req[1].route = DepartmentsDelete /\ req[1].role = "admin"
    /\ \E sub \in subjects : sub.departmentId = req[1].id
    /\ req[1].thrown = "foreign_key"
    /\ req[1].status = 500

-----------------------------------------------------------------------------
(* Specification: creates on a unique natural key, requests interleaved:    *)
(* POST /api/departments by an admin and POST /api/users                    *)

RaceDepartmentBodies ==
    { DepartmentBody({"name", "code"}, "Maths", "MA"),
      DepartmentBody({"name", "code"}, "Mathematics", "MA"),
      DepartmentBody({"name", "code"}, "Physics", "PH") }

RaceUserBodies ==
    { UserBody({"id", "name", "email"}, "un", Ned, EmailOf("n"), "student"),
      UserBody({"id", "name", "email"}, "um", Ned, EmailOf("n"), "student"),
      UserBody({"id", "name", "email"}, "um", Ned, EmailOf("m"), "student") }

RaceNext ==
    \E r \in Reqs :
        \/ \E body \in RaceDepartmentBodies : StartDepartmentCreate(r, "ua", body)
        \/ \E body \in RaceUserBodies : StartUserCreate(r, "ua", body)
        \/ DepartmentCreate_getDepartmentByCode(r)
        \/ DepartmentCreate_insert(r)
        \/ DepartmentCreate_fetch(r)
        \/ UserCreate_getUserByEmail(r)
        \/ UserCreate_insert(r)
        \/ Finish(r)

RaceSpec == Init /\ [][RaceNext]_vars

\* C14: when two creates collide on a unique natural key (the code of two
\* POST /api/departments, the email of two POST /api/users) and both pass the
\* advisory pre-check, one row is inserted and the request the store refuses
\* is answered 409, not 500.
C14_KeyRaceLoserGets409 ==
    \A r1, r2 \in Reqs :
        ( /\ r1 # r2 /\ Done(r1) /\ Done(r2)
          /\ req[r1].route = req[r2].route
          /\ req[r1].route \in {DepartmentsPost, UsersPost}
          /\ req[r1].status = 201
          /\ req[r2].thrown = "unique" )
        => req[r2].status = 409

-----------------------------------------------------------------------------
(* Specification: updates of a unique natural key by an admin, one request  *)
(* at a time: PUT /api/departments/:id with a code, PUT /api/users/:id with *)
(* an email (and POST /api/departments, for a second department)            *)

KeyDepartmentBodies ==
    {DepartmentBody({"code"}, "", code) : code \in {"CS", "MA", "cs"}}

KeyUserBodies ==
    {UserBody({"email"}, "", <<>>, EmailOf(c), "student") : c \in {"s", "t", "n"}}

KeyUpdateNext ==
    \/ StartDepartmentCreate(1, "ua", DepartmentBody({"name", "code"}, "Maths", "MA"))
    \/ \E id \in 1..MaxDepartmentId, body \in KeyDepartmentBodies :
          StartDepartmentUpdate(1, "ua", id, body)
    \/ \E userId \in {"us", "ut"}, body \in KeyUserBodies :
          StartUserUpdate(1, "ua", userId, body)
    \/ DepartmentCreate_getDepartmentByCode(1)
    \/ DepartmentCreate_insert(1)
    \/ DepartmentCreate_fetch(1)
    \/ DepartmentUpdate_getDepartment(1)
    \/ DepartmentUpdate_getDepartmentByCode(1)
    \/ DepartmentUpdate_update(1)
    \/ DepartmentUpdate_refetch(1)
    \/ UserUpdate_getUser(1)
    \/ UserUpdate_getUserByEmail(1)
    \/ UserUpdate_update(1)
    \/ Finish(1)

KeyUpdateSpec == Init /\ [][KeyUpdateNext]_vars

\* the finished PUT in slot r of a department that exists, giving a code
DepartmentCodePut(r) ==
    /\ Done(r) /\ req[r].route = DepartmentsPut
    /\ req[r].existing # <<>> /\ Has(req[r].body, "code")

\* the finished PUT in slot r of a user that exists, giving an email
UserEmailPut(r) ==
    /\ Done(r) /\ req[r].route = UsersPut
    /\ req[r].existing # <<>> /\ Has(req[r].body, "email")

\* C15: the uniqueness check of an update excludes the record being updated.
\* A PUT /api/departments/:id giving the department's own current code (a PUT
\* /api/users/:id giving the user's own current email) is answered 200 and
\* the row keeps that key; the same PUT giving a code (an email) that another
\* record holds is answered 409 and the row is as it was found.
C15_UpdateExcludesOwnRecord ==
    \A r \in Reqs :
        LET q == req[r]
        IN  /\ DepartmentCodePut(r) =>
                /\ q.existing[1].code = q.body.code =>
                      /\ q.status = 200
                      /\ q.data = q.existing
                      /\ q.existing[1] \in departments
                /\ (\E d \in departments : d.id # q.id /\ d.code = q.body.code) =>
                      /\ q.status = 409
                      /\ q.existing[1] \in departments
            /\ UserEmailPut(r) =>
                /\ q.existing[1].email = Trim(q.body.email) =>
                      /\ q.status = 200
                      /\ q.data = q.existing
                      /\ q.existing[1] \in users
                /\ (\E u \in users : u.id # q.userId /\ u.email = Trim(q.body.email)) =>
                      /\ q.status = 409
                      /\ q.existing[1] \in users

\* a PUT giving the department's own code was answered 200 while another
\* department is stored
C15_Witness ==
    /\ DepartmentCodePut(1)
    /\ req[1].existing[1].code = req[1].body.code
    /\ req[1].status = 200
    /\ Cardinality(departments) = 2

-----------------------------------------------------------------------------
(* Properties of POST /api/classes *)

\* C16: a POST /api/classes whose subjectId or teacherId names no stored row
\* is rejected as not found (404), never as 500, and no insert is issued.
C16_MissingReferenceIs404 ==
    \A r \in Reqs :
        LET b == req[r].body
        IN  ( /\ Done(r) /\ req[r].route = ClassesPost
              /\ b.wrongType = {} /\ classes_not_null(b)
              /\ \/ \A sub \in subjects : sub.id # b.subjectId
                 \/ getUserById(b.teacherId) = {} )
            => (req[r].status = 404 /\ req[r].storeCalls = 0)

-----------------------------------------------------------------------------
(* Store: deletes of classes and subjects, with the foreign-key actions of  *)
(* the schema.  The routes that issue them (DELETE /api/classes/:id, DELETE *)
(* /api/subjects/:id) are described by the README; the statements are the   *)
(* store's.                                                                 *)

\* the enrollments left alone by a delete of classes
enrollments_class_id_no_action(rows, goneClassIds) == rows

\* enrollments.class_id references classes.id, onDelete: "cascade"
enrollments_class_id_cascade(rows, goneClassIds) ==
    {e \in rows : e.classId \notin goneClassIds}

\* classes.subject_id references subjects.id, onDelete: "cascade"
classes_subject_id_cascade(rows, goneSubjectIds) ==
    {c \in rows : c.subjectId \notin goneSubjectIds}

\* delete from classes where id = classId
ClassDelete(classId) ==
    /\ getClassById(classId) # {}
    /\ classes' = classes \ getClassById(classId)
    /\ enrollments' = enrollments_class_id_cascade(enrollments, {classId})
    /\ inserted' = {l \in inserted : \E e \in enrollments' : e.id = l.id}
    /\ UNCHANGED <<users, departments, subjects, nextEnrollmentId, nextDepartmentId,
                   nextClassId, userClock, req>>

\* delete from subjects where id = subjectId
SubjectDelete(subjectId) ==
    /\ \E sub \in subjects : sub.id = subjectId
    /\ subjects' = {sub \in subjects : sub.id # subjectId}
    /\ classes' = classes_subject_id_cascade(classes, {subjectId})
    /\ enrollments' = enrollments_class_id_cascade(enrollments,
                          {c.id : c \in classes \ classes'})
    /\ inserted' = {l \in inserted : \E e \in enrollments' : e.id = l.id}
    /\ UNCHANGED <<users, departments, nextEnrollmentId, nextDepartmentId,
                   nextClassId, userClock, req>>

-----------------------------------------------------------------------------
(* Specification: enrollment creates and deletes of classes and subjects,   *)
(* interleaved; class i belongs to subject i                                *)

CascadeInit ==
    /\ users = SeedUsers
    /\ departments = SeedDepartments
    /\ subjects = {[id |-> i, departmentId |-> 1, code |-> InviteCodes[i]]
                      : i \in 1..NumClasses}
    /\ classes = {ClassRow(i, InviteCodes[i], "Algorithms", i, "ut", 50, "active")
                      : i \in 1..NumClasses}
    /\ enrollments = {}
    /\ nextEnrollmentId = 1
    /\ nextDepartmentId = 2
    /\ nextClassId = NumClasses + 1
    /\ userClock = 4
    /\ req = [r \in Reqs |-> IdleReq]
    /\ inserted = {}

CascadeNext ==
    \/ \E classId \in 1..NumClasses : ClassDelete(classId)
    \/ \E subjectId \in 1..NumClasses : SubjectDelete(subjectId)
    \/ \E r \in Reqs :
          \/ \E session \in {"us", "ut"}, classId \in 1..NumClasses :
                StartEnrollmentCreate(r, EnrollmentsPost, session, classId, Missing,
                                      Missing)
          \/ EnrollmentCreate_getClass(r)
          \/ EnrollmentCreate_getUser(r)
          \/ EnrollmentCreate_checkPair(r)
          \/ EnrollmentCreate_insert(r)
          \/ EnrollmentCreate_fetch(r)
          \/ Finish(r)

CascadeSpec == CascadeInit /\ [][CascadeNext]_vars

\* the ids of the classes a step deletes
GoneClassIds == {c.id : c \in classes} \ {c.id : c \in classes'}

\* C17: a step that deletes a class (directly, or by deleting its subject)
\* leaves no enrollment with that class's id and leaves the enrollments of
\* the other classes as they were.
C17_ClassDeleteCascades ==
    [][GoneClassIds # {} =>
          /\ \A e \in enrollments' : e.classId \notin GoneClassIds
          /\ \A e \in enrollments : e.classId \notin GoneClassIds => e \in enrollments'
          /\ enrollments' \subseteq enrollments]_vars

\* class 1 is gone with the enrollment it had, the enrollment of class 2 stays
C17_Witness ==
    /\ getClassById(1) = {}
    /\ nextEnrollmentId = 3
    /\ \E e \in enrollments : e.classId = 2
    /\ Cardinality(enrollments) = 1

-----------------------------------------------------------------------------
(* Properties of the class lookup of the two enrollment create paths *)

\* C19: a POST /api/enrollments whose classId names no class and a POST
\* /api/enrollments/join whose inviteCode names no class, sent by a signed-in
\* caller with a well-formed body, get the same answer: 404 with error
\* "Class not found", after the class lookup alone, and no row is inserted.
C19_ClassMissIs404 ==
    \A r \in Reqs :
        ( /\ Done(r) /\ req[r].route \in EnrollmentCreateRoutes
          /\ req[r].user # NoUser
          /\ CreateInput(req[r]).ok
          /\ NamedClass(req[r]) = {} )
        => /\ req[r].status = 404
           /\ req[r].error = "Class not found"
           /\ req[r].storeCalls = 1
           /\ req[r].createdId = 0
           /\ \A e \in enrollments : e.id < nextEnrollmentId

\* a join with an invite code of no class was answered 404 after an earlier
\* create had stored an enrollment
C19_Witness ==
    /\ Done(1) /\ req[1].route = EnrollmentsJoin
    /\ req[1].user # NoUser
    /\ req[1].inviteCode = InviteCodes[NumClasses + 1]
    /\ req[1].status = 404
    /\ enrollments # {}

-----------------------------------------------------------------------------
(* Properties of the list endpoints *)

ListRoutes == {EnrollmentsList, UsersList}

\* the query of a list request passes the route's schema
ListQueryValid(q) ==
    IF q.route = UsersList THEN userListQuerySchema(q)
    ELSE enrollmentListQuerySchema(q)

\* C20: a list request that reaches its handler with a valid query (page an
\* integer >= 1 or omitted, limit an integer in 1..100 or omitted) is answered
\* 200 with at most limit rows, pagination.totalPages equal to
\* ceil(pagination.total / pagination.limit), and pagination.page and
\* pagination.limit equal to the requested values, 1 and 10 when omitted.
C20_ListPagination ==
    \A r \in Reqs :
        ( /\ Done(r) /\ req[r].route \in ListRoutes
          /\ req[r].status \notin {401, 403}
          /\ ListQueryValid(req[r]) )
        => /\ req[r].status = 200
           /\ Len(req[r].data) <= req[r].pagination.limit
           /\ req[r].pagination.totalPages * req[r].pagination.limit
                  >= req[r].pagination.total
           /\ (req[r].pagination.totalPages - 1) * req[r].pagination.limit
                  < req[r].pagination.total \/ req[r].pagination.totalPages = 0
           /\ req[r].pagination.totalPages >= 0
           /\ req[r].pagination.page =
                  (IF req[r].page = MissingNum THEN 1 ELSE req[r].page)
           /\ req[r].pagination.limit =
                  (IF req[r].limit = MissingNum THEN 10 ELSE req[r].limit)

-----------------------------------------------------------------------------
(* Specification: the list endpoints of users and departments, one request  *)
(* at a time, between creates that change what the lists show               *)

\* two departments of one seed run, the second without a subject
ListDepartments ==
    SeedDepartments \cup
    { [id |-> 2, code |-> "MA", name |-> "Maths", description |-> Null,
       createdAt |-> 0] }

ListSubjects ==
    SeedSubjects \cup { [id |-> 2, departmentId |-> 1, code |-> "CS102"] }

ListInit ==
    /\ users = SeedUsers
    /\ departments = ListDepartments
    /\ subjects = ListSubjects
    /\ classes = SeedClasses
    /\ enrollments = {}
    /\ nextEnrollmentId = 1
    /\ nextDepartmentId = 3
    /\ nextClassId = NumClasses + 1
    /\ userClock = 4
    /\ req = [r \in Reqs |-> IdleReq]
    /\ inserted = {}

DepartmentQuery(keys, search) ==
    [kind |-> "departmentQuery", keys |-> keys, wrongType |-> {}, search |-> search]

DepartmentQueries ==
    { [query |-> DepartmentQuery({}, <<>>), page |-> MissingNum, limit |-> MissingNum],
      [query |-> DepartmentQuery({"limit"}, <<>>), page |-> MissingNum, limit |-> 1],
      [query |-> DepartmentQuery({"page", "limit"}, <<>>), page |-> 2, limit |-> 1],
      [query |-> DepartmentQuery({"page", "limit"}, <<>>), page |-> 3, limit |-> 2],
      [query |-> DepartmentQuery({"search"}, <<"c">>),
       page |-> MissingNum, limit |-> MissingNum],
      [query |-> DepartmentQuery({"search", "page", "limit"}, <<"m", "a">>),
       page |-> 1, limit |-> 1],
      [query |-> DepartmentQuery({"search"}, <<"z">>),
       page |-> MissingNum, limit |-> MissingNum],
      [query |-> DepartmentQuery({"page"}, <<>>), page |-> 0, limit |-> MissingNum] }

ListDepartmentBodies == { DepartmentBody({"name", "code"}, "Physics", "PH") }

ListUserBodies ==
    { UserBody({"id", "name", "email"}, "un", Ned, EmailOf("n"), "student") }

ListNext ==
    \/ \E body \in ListDepartmentBodies : StartDepartmentCreate(1, "ua", body)
    \/ \E body \in ListUserBodies : StartUserCreate(1, "ua", body)
    \/ \E session \in Sessions, in \in UserQueries :
          StartUserList(1, session, in.query, in.page, in.limit)
    \/ \E session \in Sessions, in \in DepartmentQueries :
          StartDepartmentList(1, session, in.query, in.page, in.limit)
    \/ DepartmentCreate_getDepartmentByCode(1)
    \/ DepartmentCreate_insert(1)
    \/ DepartmentCreate_fetch(1)
    \/ UserCreate_getUserByEmail(1)
    \/ UserCreate_insert(1)
    \/ UserList_count(1)
    \/ UserList_list(1)
    \/ DepartmentList_count(1)
    \/ DepartmentList_list(1)
    \/ Finish(1)

ListSpec == ListInit /\ [][ListNext]_vars

\* the rows of the listed table that pass the filters of the request
ListMatching(q) ==
    IF q.route = UsersList THEN UsersWhere(q) ELSE DepartmentsWhere(q)

-----------------------------------------------------------------------------
(* Specification: creates and updates of the uniquely keyed resources,      *)
(* requests interleaved: departments, classes and users through their       *)
(* routes, subjects through the insert their route issues                   *)

\* subjects.code is unique()
subjects_code_unique(rows) ==
    \A s1, s2 \in rows : s1.code = s2.code => s1.id = s2.id

SubjectCodes == {"CS101", "CS102"}

\* insert into subjects: the statement of the subjects create route; the row
\* is refused on subjects_code_unique
SubjectInsert(code) ==
    /\ Cardinality(subjects) < Cardinality(SubjectCodes) + 1
    /\ LET createdSubject ==
               [id |-> Cardinality(subjects) + 1, departmentId |-> 1, code |-> code]
           rows == subjects \cup {createdSubject}
       IN  /\ subjects_code_unique(rows)
           /\ subjects' = rows
    /\ UNCHANGED <<users, departments, classes, enrollments, nextEnrollmentId,
                   nextDepartmentId, nextClassId, userClock, req, inserted>>

UniqueDepartmentBodies == { DepartmentBody({"name", "code"}, "Maths", "MA") }

UniqueDepartmentUpdates == { DepartmentBody({"code"}, "", "MA") }

UniqueUserUpdates == { UserBody({"email"}, "", <<>>, EmailOf("n"), "student") }

UniqueClassBodies ==
    { ClassBody({"name", "subjectId", "teacherId"}, "Logic", 1, "ut", "") }

UniqueUserBodies ==
    { UserBody({"id", "name", "email"}, "un", Ned, EmailOf("n"), "student") }

UniqueNext ==
    \/ \E code \in SubjectCodes : SubjectInsert(code)
    \/ \E r \in Reqs :
        \/ \E body \in UniqueDepartmentBodies : StartDepartmentCreate(r, "ua", body)
        \/ \E body \in UniqueDepartmentUpdates :
              StartDepartmentUpdate(r, "ua", 1, body)
        \/ \E body \in UniqueUserBodies : StartUserCreate(r, "ua", body)
        \/ \E body \in UniqueUserUpdates : StartUserUpdate(r, "ua", "us", body)
        \/ \E body \in UniqueClassBodies : StartClassCreate(r, "ua", body)
        \/ DepartmentCreate_getDepartmentByCode(r)
        \/ DepartmentCreate_insert(r)
        \/ DepartmentCreate_fetch(r)
        \/ DepartmentUpdate_getDepartment(r)
        \/ DepartmentUpdate_getDepartmentByCode(r)
        \/ DepartmentUpdate_update(r)
        \/ DepartmentUpdate_refetch(r)
        \/ UserCreate_getUserByEmail(r)
        \/ UserCreate_insert(r)
        \/ UserUpdate_getUser(r)
        \/ UserUpdate_getUserByEmail(r)
        \/ UserUpdate_update(r)
        \/ ClassCreate_insert(r)
        \/ Finish(r)

UniqueSpec == Init /\ [][UniqueNext]_vars

\* C22: in every reachable state there are as many department codes as
\* departments, as many subject codes as subjects, as many invite codes as
\* classes and as many emails as users: no two rows of a table share its key.
C22_KeysUnique ==
    /\ Cardinality({d.code : d \in departments}) = Cardinality(departments)
    /\ Cardinality({sub.code : sub \in subjects}) = Cardinality(subjects)
    /\ Cardinality({c.inviteCode : c \in classes}) = Cardinality(classes)
    /\ Cardinality({u.email : u \in users}) = Cardinality(users)

\* two creates of one department code both passed the code check and the
\* second insert was refused by the store, a created class, a second subject
\* and a created user are stored
C22_Witness ==
    /\ \E r \in Reqs : req[r].route = DepartmentsPost /\ req[r].thrown = "unique"
    /\ Cardinality(classes) > Cardinality(SeedClasses)
    /\ Cardinality(subjects) > Cardinality(SeedSubjects)
    /\ Cardinality(users) > Cardinality(SeedUsers)

-----------------------------------------------------------------------------
(* Specification: store failures.  Every store call of a handler is awaited  *)
(* inside the handler's try block; a call the store fails (a lost           *)
(* connection, a timeout) throws into the catch block.                       *)

FailureRoutes == EnrollmentRoutes \cup {UsersPost}

FailureMessage(route) ==
    IF route = UsersPost THEN UserCatchMessage(route) ELSE CatchMessage(route)

\* the store call the request in slot r is waiting to issue is issued and fails
StoreFails(r) ==
    /\ req[r].pc \notin {"idle", "done"}
    /\ req' = [req EXCEPT ![r] =
            Catch(StoreCall(req[r]), "store", FailureMessage(req[r].route))]
    /\ UNCHANGED store

FailureNext ==
    \/ \E session \in {"us", "ut"}, classId \in 1..(NumClasses + 1) :
          StartEnrollmentCreate(1, EnrollmentsPost, session, classId, Missing, Missing)
    \/ \E session \in {"us", "ut"}, inviteCode \in {"c1", "c3"} :
          StartEnrollmentCreate(1, EnrollmentsJoin, session, MissingNum, inviteCode,
                                Missing)
    \/ \E id \in 1..MaxEnrollmentId, classId \in {MissingNum, 2},
          studentId \in {Missing, "ut"} :
          StartEnrollmentUpdate(1, "ut", id, classId, studentId)
    \/ \E id \in 1..MaxEnrollmentId : StartEnrollmentDelete(1, "ut", id)
    \/ \E id \in 1..MaxEnrollmentId : StartEnrollmentGet(1, "ut", id)
    \/ \E page \in {MissingNum, 2} :
          StartEnrollmentList(1, "ut", MissingNum, Missing, page, MissingNum)
    \/ \E body \in RaceUserBodies : StartUserCreate(1, "ua", body)
    \/ EnrollmentCreate_getClass(1)
    \/ EnrollmentCreate_getUser(1)
    \/ EnrollmentCreate_checkPair(1)
    \/ EnrollmentCreate_insert(1)
    \/ EnrollmentCreate_fetch(1)
    \/ EnrollmentUpdate_getEnrollment(1)
    \/ EnrollmentUpdate_getClass(1)
    \/ EnrollmentUpdate_getUser(1)
    \/ EnrollmentUpdate_checkPair(1)
    \/ EnrollmentUpdate_update(1)
    \/ EnrollmentUpdate_refetch(1)
    \/ EnrollmentDelete_delete(1)
    \/ EnrollmentGet_get(1)
    \/ EnrollmentList_count(1)
    \/ EnrollmentList_list(1)
    \/ UserCreate_getUserByEmail(1)
    \/ UserCreate_insert(1)
    \/ StoreFails(1)
    \/ Finish(1)

FailureSpec == Init /\ [][FailureNext]_vars

\* what a failed store call leaves in the request: a transient failure or a
\* statement the store refused
StoreFailures == {"store", "unique", "foreign_key", "orderBy", "insert"}

\* C23: the step in which a store call of a request fails counts that one
\* call, ends the handler and answers 500 with the fixed message of the route,
\* and from then on the request issues no store call: it only leaves.
C23_NoRetry ==
    [][\A r \in Reqs :
          /\ (req[r].thrown = "none" /\ req'[r].thrown \in StoreFailures)
                => /\ req'[r].pc = "done"
                   /\ req'[r].status = 500
                   /\ req'[r].error = FailureMessage(req[r].route)
                   /\ req'[r].storeCalls = req[r].storeCalls + 1
          /\ req[r].thrown \in StoreFailures
                => (req'[r] = req[r] \/ req'[r] = IdleReq)]_vars

\* the fetch that follows the insert of a create failed: the create was
\* answered 500 after five store calls, with its enrollment stored
C23_Witness ==
    /\ Done(1) /\ req[1].route = EnrollmentsPost
    /\ req[1].thrown = "store"
    /\ req[1].status = 500
    /\ req[1].storeCalls = 5
    /\ \E e \in enrollments : e.id = req[1].createdId

-----------------------------------------------------------------------------
(* Properties of the order of the steps of the two enrollment create paths *)

\* the stored enrollments of the caller of the create in slot r in the class
\* the create resolved
StoredPair(r) ==
    {e \in enrollments : /\ e.studentId = req[r].user
                         /\ e.classId = req[r].classRecordId}

\* C24: in POST /api/enrollments and POST /api/enrollments/join the class is
\* resolved by the first store call, and a miss is answered 404 after that call
\* alone; the existing-pair check is the third call, and a hit is answered 409
\* with nothing inserted; the insert is the fourth call and is issued only for
\* a class that was found and a pair the check did not find; 201 is answered
\* only after the insert and the fetch that follows it, five calls in all.
C24_CreateStepsInOrder ==
    /\ [](\A r \in Reqs :
            (Done(r) /\ req[r].route \in EnrollmentCreateRoutes) =>
                /\ req[r].status = 404 /\ req[r].error = "Class not found"
                      => (req[r].storeCalls = 1 /\ req[r].classRecordId = 0
                          /\ req[r].createdId = 0)
                /\ req[r].status = 409
                      => (req[r].storeCalls = 3 /\ req[r].classRecordId # 0
                          /\ req[r].createdId = 0)
                /\ req[r].status = 201
                      => (req[r].storeCalls = 5 /\ req[r].classRecordId # 0
                          /\ req[r].createdId # 0))
    /\ [][\A r \in Reqs :
            (req[r].route \in EnrollmentCreateRoutes /\ Steps(r)) =>
                /\ req'[r].storeCalls = 3
                      => IF StoredPair(r) # {}
                         THEN req'[r].pc = "done" /\ req'[r].status = 409
                              /\ enrollments' = enrollments
                         ELSE req'[r].pc = "insert"
                /\ (req'[r].storeCalls = 4 /\ req'[r].thrown # "store")
                      => /\ req[r].pc = "insert"
                         /\ req[r].classRecordId # 0
                         /\ \/ /\ req'[r].createdId # 0
                               /\ req'[r].pc = "fetch"
                               /\ \E e \in enrollments' \ enrollments :
                                     /\ e.id = req'[r].createdId
                                     /\ e.classId = req[r].classRecordId
                            \/ /\ req'[r].createdId = 0
                               /\ req'[r].status = 500
                               /\ enrollments' = enrollments
                /\ enrollments' # enrollments => req'[r].storeCalls = 4]_vars

\* a join was answered 409 by its pair check, the pair being stored by an
\* earlier create
C24_Witness ==
    /\ Done(1) /\ req[1].route = EnrollmentsJoin
    /\ req[1].status = 409 /\ req[1].storeCalls = 3
    /\ \E e \in enrollments : e.studentId = req[1].user /\ e.classId = req[1].classRecordId

-----------------------------------------------------------------------------
(* Specification: creates, updates and deletes on the five resources,       *)
(* requests interleaved, so that a delete can fall between a create's       *)
(* existence check and its insert                                           *)

IntegrityClassBodies ==
    { ClassBody({"name", "subjectId", "teacherId"}, "Logic", 1, "ut", "") }

IntegrityUpdates ==
    { [classId |-> 2, studentId |-> Missing],
      [classId |-> MissingNum, studentId |-> "ut"] }

IntegrityNext ==
    \/ \E classId \in 1..NumClasses : ClassDelete(classId)
    \/ \E subjectId \in 1..NumClasses : SubjectDelete(subjectId)
    \/ \E r \in Reqs :
          \/ \E classId \in 1..NumClasses :
                StartEnrollmentCreate(r, EnrollmentsPost, "us", classId, Missing,
                                      Missing)
          \/ \E body \in IntegrityUpdates :
                StartEnrollmentUpdate(r, "ut", 1, body.classId, body.studentId)
          \/ \E body \in IntegrityClassBodies : StartClassCreate(r, "ua", body)
          \/ \E userId \in {"us", "ut"} : StartUserDelete(r, "ua", userId)
          \/ StartDepartmentDelete(r, "ua", 1)
          \/ EnrollmentCreate_getClass(r)
          \/ EnrollmentCreate_getUser(r)
          \/ EnrollmentCreate_checkPair(r)
          \/ EnrollmentCreate_insert(r)
          \/ EnrollmentCreate_fetch(r)
          \/ EnrollmentUpdate_getEnrollment(r)
          \/ EnrollmentUpdate_getClass(r)
          \/ EnrollmentUpdate_getUser(r)
          \/ EnrollmentUpdate_checkPair(r)
          \/ EnrollmentUpdate_update(r)
          \/ EnrollmentUpdate_refetch(r)
          \/ ClassCreate_insert(r)
          \/ UserDelete_delete(r)
          \/ DepartmentDelete_delete(r)
          \/ Finish(r)

IntegritySpec == CascadeInit /\ [][IntegrityNext]_vars

\* C25: in every reachable state each enrollment names a stored class and a
\* stored user, each class names a stored subject and a stored user as its
\* teacher, and each subject names a stored department.
C25_ReferentialIntegrity ==
    /\ \A e \in enrollments :
          /\ \E c \in classes : c.id = e.classId
          /\ \E u \in users : u.id = e.studentId
    /\ \A c \in classes :
          /\ \E sub \in subjects : sub.id = c.subjectId
          /\ \E u \in users : u.id = c.teacherId
    /\ \A sub \in subjects : \E d \in departments : d.id = sub.departmentId

\* a create found its class, the class was deleted before the insert, and the
\* store refused the insert; an enrollment of another class is stored
C25_Witness ==
    \E r \in Reqs :
        /\ req[r].route = EnrollmentsPost
        /\ req[r].thrown = "foreign_key"
        /\ req[r].classRecordId # 0
        /\ getClassById(req[r].classRecordId) = {}
        /\ getUserById(req[r].user) # {}
        /\ enrollments # {}

-----------------------------------------------------------------------------
(* Properties of PUT /api/enrollments/:id, one request at a time *)

\* C26: a PUT /api/enrollments/:id by a signed-in caller, with a well-formed
\* body, on a stored enrollment: when the given class or the given student is
\* not stored it is answered 404; otherwise, when another enrollment holds the
\* resulting pair (each given value, the enrollment's current value for a
\* field not given), it is answered 409; in both cases the enrollment keeps
\* its pair.  Otherwise it is answered 200 and the enrollment holds the
\* resulting pair, also when that is the pair it held.  A step of the request
\* changes no other enrollment.
C26_UpdatePair ==
    /\ [](\A r \in Reqs :
            ( /\ Done(r) /\ req[r].route = EnrollmentsPut
              /\ req[r].user # NoUser
              /\ enrollmentIdParamSchema(req[r]) /\ enrollmentUpdateSchema(req[r])
              /\ req[r].existingClassId # 0 )
            => LET q == req[r]
                   resultClass == IF q.classId # MissingNum THEN q.classId
                                  ELSE q.existingClassId
                   resultStudent == IF q.studentId # Missing THEN q.studentId
                                    ELSE q.existingStudentId
                   missing ==
                       \/ q.classId # MissingNum /\ ~\E c \in classes : c.id = q.classId
                       \/ q.studentId # Missing /\ ~\E u \in users : u.id = q.studentId
                   taken == \E e \in enrollments :
                               /\ e.id # q.id
                               /\ e.classId = resultClass
                               /\ e.studentId = resultStudent
               IN  \E row \in enrollments :
                       /\ row.id = q.id
                       /\ IF missing
                          THEN /\ q.status = 404
                               /\ row.classId = q.existingClassId
                               /\ row.studentId = q.existingStudentId
                          ELSE IF taken
                          THEN /\ q.status = 409
                               /\ row.classId = q.existingClassId
                               /\ row.studentId = q.existingStudentId
                          ELSE /\ q.status = 200
                               /\ row.classId = resultClass
                               /\ row.studentId = resultStudent)
    /\ [][\A r \in Reqs :
            (req[r].route = EnrollmentsPut /\ Steps(r)) =>
                \A e \in enrollments :
                    e.id # req[r].id => e \in enrollments']_vars

\* an update that gave the enrollment's own pair was answered 200 while
\* another enrollment was stored, and the pair is the enrollment's still
C26_Witness ==
    /\ Done(1) /\ req[1].route = EnrollmentsPut /\ req[1].status = 200
    /\ req[1].classId = req[1].existingClassId
    /\ req[1].studentId = req[1].existingStudentId
    /\ Cardinality(enrollments) = 2
    /\ \E e \in enrollments : /\ e.id = req[1].id
                              /\ e.classId = req[1].classId
                              /\ e.studentId = req[1].studentId

-----------------------------------------------------------------------------
(* Specification: PUT and DELETE /api/departments/:id by an admin, requests *)
(* interleaved; department 2 has no subject and can be deleted              *)

PutDeleteBodies ==
    { DepartmentBody({"name"}, "Science", ""),
      DepartmentBody({"code"}, "", "cs") }

PutDeleteNext ==
    \E r \in Reqs :
        \/ \E id \in 1..2, body \in PutDeleteBodies :
              StartDepartmentUpdate(r, "ua", id, body)
        \/ \E id \in 1..2 : StartDepartmentDelete(r, "ua", id)
        \/ DepartmentUpdate_getDepartment(r)
        \/ DepartmentUpdate_getDepartmentByCode(r)
        \/ DepartmentUpdate_update(r)
        \/ DepartmentUpdate_refetch(r)
        \/ DepartmentDelete_delete(r)
        \/ Finish(r)

PutDeleteSpec == ListInit /\ [][PutDeleteNext]_vars

\* C27: a PUT /api/departments/:id that is answered 200 carries the department
\* of that id in data, under every interleaving; a PUT whose department was
\* deleted after its existence check is not answered 200.
C27_PutReturnsStoredRow ==
    \A r \in Reqs :
        (Done(r) /\ req[r].route = DepartmentsPut /\ req[r].status = 200)
            => /\ Len(req[r].data) = 1
               /\ req[r].data[1].id = req[r].id

-----------------------------------------------------------------------------
(* Specification: pages of GET /api/departments, requests interleaved, on a *)
(* store that no request changes: two departments of the seed run and one   *)
(* created later; Computing has two subjects, the others none               *)

PagesInit ==
    /\ users = SeedUsers
    /\ departments = ListDepartments \cup
           { [id |-> 3, code |-> "PH", name |-> "Physics", description |-> Null,
              createdAt |-> 3] }
    /\ subjects = ListSubjects
    /\ classes = SeedClasses
    /\ enrollments = {}
    /\ nextEnrollmentId = 1
    /\ nextDepartmentId = 4
    /\ nextClassId = NumClasses + 1
    /\ userClock = 4
    /\ req = [r \in Reqs |-> IdleReq]
    /\ inserted = {}

PageQueries ==
    { [query |-> DepartmentQuery({"page", "limit"}, <<>>), page |-> pg, limit |-> 2]
          : pg \in 1..2 }
    \cup
    { [query |-> DepartmentQuery({"search", "page", "limit"}, <<"c">>),
       page |-> pg, limit |-> 1] : pg \in 1..3 }

PagesNext ==
    \E r \in Reqs :
        \/ \E session \in {"us", "ua"}, in \in PageQueries :
              StartDepartmentList(r, session, in.query, in.page, in.limit)
        \/ DepartmentList_count(r)
        \/ DepartmentList_list(r)
        \/ Finish(r)

PagesSpec == PagesInit /\ [][PagesNext]_vars

\* a finished list of departments that was answered 200
ListedDepartments(r) ==
    Done(r) /\ req[r].route = DepartmentsList /\ req[r].status = 200

\* the ids of the departments on the page of the list in slot r
PageIds(r) == {req[r].data[i].id : i \in 1..Len(req[r].data)}

\* each row of a page is a department that passes the filter, with the number
\* of subjects that reference it as totalSubjects (0 when none does), and the
\* total is the number of departments that pass the filter
DepartmentListAggregates ==
    \A r \in Reqs :
        ListedDepartments(r) =>
            /\ req[r].pagination.total = Cardinality(DepartmentsWhere(req[r]))
            /\ \A i \in 1..Len(req[r].data) :
                  /\ \E d \in DepartmentsWhere(req[r]) : d.id = req[r].data[i].id
                  /\ req[r].data[i].totalSubjects =
                        Cardinality({sub \in subjects :
                                        sub.departmentId = req[r].data[i].id})
                  /\ \A j \in 1..Len(req[r].data) :
                        req[r].data[i].id = req[r].data[j].id => i = j

\* C28: the list of departments with their subject counts drops and repeats
\* no department: each row carries the number of subjects of its department,
\* 0 for a department without a subject, the total is the number of matching
\* departments, and the pages of one query, taken on an unchanged store,
\* together hold every matching department exactly once.
C28_NoDepartmentDropped ==
    /\ DepartmentListAggregates
    /\ \A r1, r2 \in Reqs :
          ( /\ ListedDepartments(r1) /\ ListedDepartments(r2)
            /\ req[r1].body = req[r2].body
            /\ req[r1].limit = req[r2].limit
            /\ req[r1].page = 1 /\ req[r2].page = 2
            /\ req[r1].pagination.totalPages = 2 )
          => /\ PageIds(r1) \cap PageIds(r2) = {}
             /\ PageIds(r1) \cup PageIds(r2) =
                   {d.id : d \in DepartmentsWhere(req[r1])}

\* the pages 1 and 2 of one query, in slots r1 and r2, which are all its pages
PagesOfOneQuery(r1, r2) ==
    /\ ListedDepartments(r1) /\ ListedDepartments(r2)
    /\ req[r1].body = req[r2].body
    /\ req[r1].limit = req[r2].limit
    /\ req[r1].page = 1 /\ req[r2].page = 2
    /\ req[r1].pagination.totalPages = 2

\* C28, amended: each row of a page carries the number of subjects of its
\* department, 0 for a department without a subject, no page holds a
\* department twice, the total is the number of matching departments, and the
\* pages of one query on an unchanged store together hold every matching
\* department exactly once when no two matching departments have the same
\* creation time.
C28_NoDepartmentDroppedUnlessTied ==
    /\ DepartmentListAggregates
    /\ \A r1, r2 \in Reqs :
          ( /\ PagesOfOneQuery(r1, r2)
            /\ \A d1, d2 \in DepartmentsWhere(req[r1]) :
                  d1.createdAt = d2.createdAt => d1 = d2 )
          => /\ PageIds(r1) \cap PageIds(r2) = {}
             /\ PageIds(r1) \cup PageIds(r2) =
                   {d.id : d \in DepartmentsWhere(req[r1])}

\* the two pages of the search for "c" hold Computing and Physics, Physics
\* with totalSubjects 0 and Computing with 2
C28_Witness ==
    \E r1, r2 \in Reqs :
        /\ PagesOfOneQuery(r1, r2)
        /\ Has(req[r1].body, "search")
        /\ PageIds(r1) = {3} /\ req[r1].data[1].totalSubjects = 0
        /\ PageIds(r2) = {1} /\ req[r2].data[1].totalSubjects = 2

-----------------------------------------------------------------------------
(* The seed script: a wipe of the five tables, then a reload from a static  *)
(* dataset whose cross-references are natural keys. The dataset file is not *)
(* part of the sources; its shape is the type SeedData.                     *)

\* a delete order that starts with the users
SeedDeleteOrder_usersFirst == <<"user", "enrollments", "classes", "subjects", "departments">>

\* await db.delete(...) five times
SeedDeleteOrder == <<"enrollments", "classes", "subjects", "departments", "user">>

\* the awaited inserts, in the order of the script
SeedInsertOrder == <<"departments", "subjects", "user", "classes", "enrollments">>

\* the scenario dataset: one department, subject, class and enrollment
DataOne ==
    [departments |-> << [code |-> "CS", name |-> "Computing"] >>,
     subjects |-> << [code |-> "CS101", departmentCode |-> "CS"] >>,
     users |-> << [id |-> "ut", name |-> <<"T", "o", "m">>, email |-> EmailOf("t"),
                   role |-> "teacher"],
                  [id |-> "us", name |-> <<"S", "a", "m">>, email |-> EmailOf("s"),
                   role |-> Missing] >>,
     classes |-> << [inviteCode |-> "c1", name |-> "Algorithms",
                     subjectCode |-> "CS101", teacherId |-> "ut",
                     capacity |-> MissingNum, status |-> Missing] >>,
     enrollments |-> << [classInviteCode |-> "c1", studentId |-> "us"] >>]

\* two of each, the children listed in the other order than their parents
DataTwo ==
    [departments |-> << [code |-> "MA", name |-> "Maths"],
                        [code |-> "CS", name |-> "Computing"] >>,
     subjects |-> << [code |-> "CS101", departmentCode |-> "CS"],
                     [code |-> "MA101", departmentCode |-> "MA"] >>,
     users |-> DataOne.users,
     classes |-> << [inviteCode |-> "c2", name |-> "Algebra",
                     subjectCode |-> "MA101", teacherId |-> "ut",
                     capacity |-> 1, status |-> "archived"],
                    [inviteCode |-> "c1", name |-> "Algorithms",
                     subjectCode |-> "CS101", teacherId |-> "ut",
                     capacity |-> MissingNum, status |-> Missing] >>,
     enrollments |-> << [classInviteCode |-> "c1", studentId |-> "us"],
                        [classInviteCode |-> "c2", studentId |-> "us"] >>]

\* a dataset without enrollments
DataNoEnrollments == [DataOne EXCEPT !.enrollments = <<>>]

SeedDatasets == {DataOne, DataTwo, DataNoEnrollments}

\* the run of the script: its position, its dataset, the three maps from
\* natural key to generated id, and the identity sequence of subjects.id
SeedRun(data, nextSubjectId) ==
    [route |-> "seed", pc |-> "delete", step |-> 1, data |-> data,
     departmentIdByCode |-> <<>>, subjectIdByCode |-> <<>>,
     classIdByInvite |-> <<>>, nextSubjectId |-> nextSubjectId,
     thrown |-> "none"]

\* map.get(key)!: the id, or undefined
MapGet(map, key) == IF key \in DOMAIN map THEN map[key] ELSE MissingNum

\* new Map(rows.map((row) => [row.key, row.id])) for rows numbered from first
IdByKey(keys, first) ==
    [k \in {keys[i] : i \in 1..Len(keys)} |->
        first - 1 + CHOOSE i \in 1..Len(keys) :
                        keys[i] = k /\ \A j \in 1..Len(keys) : keys[j] = k => j <= i]

Codes(items) == [i \in 1..Len(items) |-> items[i].code]

\* subjects.department_id references departments.id
subjects_fk(rows) == \A sub \in rows : \E d \in departments : d.id = sub.departmentId

\* the tables as one record, with the violation of the last statement
Tables ==
    [users |-> users, departments |-> departments, subjects |-> subjects,
     classes |-> classes, enrollments |-> enrollments, violated |-> "none"]

\* await db.delete(table): every row goes, with the rows that cascade from
\* it, unless a row left elsewhere restricts the delete
SeedDelete(table) ==
    CASE table = "enrollments" -> [Tables EXCEPT !.enrollments = {}]
      [] table = "classes" ->
            [Tables EXCEPT !.classes = {},
                           !.enrollments = enrollments_class_id_cascade(
                                               enrollments, {c.id : c \in classes})]
      [] table = "subjects" ->
            LET left == classes_subject_id_cascade(classes,
                                                   {sub.id : sub \in subjects})
            IN  [Tables EXCEPT !.subjects = {}, !.classes = left,
                               !.enrollments = enrollments_class_id_cascade(
                                          enrollments, {c.id : c \in classes \ left})]
      [] table = "departments" ->
            IF subjects_department_id_restrict({d.id : d \in departments})
            THEN [Tables EXCEPT !.violated = "foreign_key"]
            ELSE [Tables EXCEPT !.departments = {}]
      [] table = "user" ->
            IF \E c \in classes : getUserById(c.teacherId) # {}
            THEN [Tables EXCEPT !.violated = "foreign_key"]
            ELSE [Tables EXCEPT !.users = {},
                                !.enrollments = {e \in enrollments :
                                                    getUserById(e.studentId) = {}}]

\* one of the five deletes
Seed_delete(r) ==
    /\ req[r].route = "seed"
    /\ req[r].pc = "delete"
    /\ LET q == req[r]
           t == SeedDelete(SeedDeleteOrder[q.step])
       IN  IF t.violated # "none"
           THEN /\ req' = [req EXCEPT ![r] =
                              [q EXCEPT !.pc = "failed", !.thrown = t.violated]]
                /\ UNCHANGED <<users, departments, subjects, classes, enrollments,
                               inserted>>
           ELSE /\ users' = t.users
                /\ departments' = t.departments
                /\ subjects' = t.subjects
                /\ classes' = t.classes
                /\ enrollments' = t.enrollments
                /\ inserted' = {l \in inserted : \E e \in t.enrollments : e.id = l.id}
                /\ req' = [req EXCEPT ![r] =
                              IF q.step = Len(SeedDeleteOrder)
                              THEN [q EXCEPT !.pc = "insert", !.step = 1]
                              ELSE [q EXCEPT !.step = q.step + 1]]
    /\ UNCHANGED <<nextEnrollmentId, nextDepartmentId, nextClassId, userClock>>

\* the rows of one insert statement, by table
SeedDepartmentRows(q) ==
    {[id |-> nextDepartmentId + i - 1, code |-> q.data.departments[i].code,
      name |-> q.data.departments[i].name, description |-> Null,
      createdAt |-> nextDepartmentId] : i \in 1..Len(q.data.departments)}

SeedSubjectRows(q) ==
    {[id |-> q.nextSubjectId + i - 1,
      departmentId |-> MapGet(q.departmentIdByCode, q.data.subjects[i].departmentCode),
      code |-> q.data.subjects[i].code] : i \in 1..Len(q.data.subjects)}

SeedUserRows(q) ==
    {UserRow(q.data.users[i].id, q.data.users[i].name, q.data.users[i].email,
             IF q.data.users[i].role = Missing THEN "student"
             ELSE q.data.users[i].role,
             userClock) : i \in 1..Len(q.data.users)}

SeedClassRows(q) ==
    {ClassRow(nextClassId + i - 1, q.data.classes[i].inviteCode,
              q.data.classes[i].name,
              MapGet(q.subjectIdByCode, q.data.classes[i].subjectCode),
              q.data.classes[i].teacherId,
              IF q.data.classes[i].capacity = MissingNum THEN 50
              ELSE q.data.classes[i].capacity,
              IF q.data.classes[i].status = Missing THEN "active"
              ELSE q.data.classes[i].status) : i \in 1..Len(q.data.classes)}

SeedEnrollmentRows(q) ==
    {[id |-> nextEnrollmentId + i - 1, studentId |-> q.data.enrollments[i].studentId,
      classId |-> MapGet(q.classIdByInvite, q.data.enrollments[i].classInviteCode)]
        : i \in 1..Len(q.data.enrollments)}

\* what the store answers to the insert of rows into table: a unique index,
\* a not-null column or a foreign key refuses the whole statement
SeedInsertViolation(table, rows) ==
    CASE table = "departments" ->
            IF departments_code_unique(departments \cup rows) THEN "none" ELSE "unique"
      [] table = "subjects" ->
            IF \E sub \in rows : sub.departmentId = MissingNum THEN "not_null"
            ELSE IF ~subjects_fk(rows) THEN "foreign_key"
            ELSE IF ~subjects_code_unique(subjects \cup rows) THEN "unique"
            ELSE "none"
      [] table = "user" ->
            IF \A u1, u2 \in users \cup rows :
                  (u1.id = u2.id \/ u1.email = u2.email) => u1 = u2
            THEN "none" ELSE "unique"
      [] table = "classes" ->
            IF \E c \in rows : c.subjectId = MissingNum THEN "not_null"
            ELSE IF ~classes_fk(rows) THEN "foreign_key"
            ELSE IF ~classes_invite_code_unique(classes \cup rows) THEN "unique"
            ELSE "none"
      [] table = "enrollments" ->
            IF \E e \in rows : e.classId = MissingNum THEN "not_null"
            ELSE IF ~enrollments_fk(rows) THEN "foreign_key"
            ELSE IF ~enrollments_student_class_unq(enrollments \cup rows)
            THEN "unique"
            ELSE "none"

SeedRows(table, q) ==
    CASE table = "departments" -> SeedDepartmentRows(q)
      [] table = "subjects" -> SeedSubjectRows(q)
      [] table = "user" -> SeedUserRows(q)
      [] table = "classes" -> SeedClassRows(q)
      [] table = "enrollments" -> SeedEnrollmentRows(q)

\* the run after the insert into table returned its rows
SeedReturning(table, q) ==
    CASE table = "departments" ->
            [q EXCEPT !.departmentIdByCode =
                          IdByKey(Codes(q.data.departments), nextDepartmentId)]
      [] table = "subjects" ->
            [q EXCEPT !.subjectIdByCode =
                          IdByKey(Codes(q.data.subjects), q.nextSubjectId),
                      !.nextSubjectId = q.nextSubjectId + Len(q.data.subjects)]
      [] table = "classes" ->
            [q EXCEPT !.classIdByInvite =
                          IdByKey([i \in 1..Len(q.data.classes) |->
                                      q.data.classes[i].inviteCode], nextClassId)]
      [] OTHER -> q

\* one of the five inserts; the insert of enrollments is skipped when the
\* dataset has none
Seed_insert(r) ==
    /\ req[r].route = "seed"
    /\ req[r].pc = "insert"
    /\ LET q == req[r]
           table == SeedInsertOrder[q.step]
           rows == SeedRows(table, q)
           violated == IF rows = {} /\ table = "enrollments" THEN "none"
                       ELSE SeedInsertViolation(table, rows)
           next == IF q.step = Len(SeedInsertOrder)
                   THEN [SeedReturning(table, q) EXCEPT !.pc = "done"]
                   ELSE [SeedReturning(table, q) EXCEPT !.step = q.step + 1]
       IN  IF violated # "none"
           THEN /\ req' = [req EXCEPT ![r] =
                              [q EXCEPT !.pc = "failed", !.thrown = violated]]
                /\ UNCHANGED <<users, departments, subjects, classes, enrollments,
                               nextEnrollmentId, nextDepartmentId, nextClassId,
                               userClock>>
           ELSE /\ req' = [req EXCEPT ![r] = next]
                /\ departments' = IF table = "departments"
                                  THEN departments \cup rows ELSE departments
                /\ nextDepartmentId' = IF table = "departments"
                                       THEN nextDepartmentId + Cardinality(rows)
                                       ELSE nextDepartmentId
                /\ subjects' = IF table = "subjects"
                               THEN subjects \cup rows ELSE subjects
                /\ users' = IF table = "user" THEN users \cup rows ELSE users
                /\ userClock' = IF table = "user" THEN userClock + 1 ELSE userClock
                /\ classes' = IF table = "classes"
                              THEN classes \cup rows ELSE classes
                /\ nextClassId' = IF table = "classes"
                                  THEN nextClassId + Cardinality(rows)
                                  ELSE nextClassId
                /\ enrollments' = IF table = "enrollments"
                                  THEN enrollments \cup rows ELSE enrollments
                /\ nextEnrollmentId' = IF table = "enrollments"
                                       THEN nextEnrollmentId + Cardinality(rows)
                                       ELSE nextEnrollmentId
    /\ UNCHANGED inserted

-----------------------------------------------------------------------------
(* Specification: one run of the seed script on a consistent store          *)

\* every foreign key of the five tables holds
StoreConsistent ==
    /\ subjects_fk(subjects)
    /\ classes_fk(classes)
    /\ enrollments_fk(enrollments)

SeedStartEnrollments ==
    { [id |-> 1, studentId |-> "us", classId |-> 1],
      [id |-> 2, studentId |-> "ut", classId |-> 2] }

\* an empty store with fresh sequences, or a used store: any consistent part
\* of the seeded rows, with the sequences past them
SeedInit ==
    /\ users \in {{}, SeedUsers}
    /\ departments \in {{}, SeedDepartments}
    /\ subjects \in {{}, SeedSubjects}
    /\ classes \in SUBSET SeedClasses
    /\ enrollments \in SUBSET SeedStartEnrollments
    /\ StoreConsistent
    /\ inserted = {}
    /\ \E fresh \in BOOLEAN, data \in SeedDatasets :
          /\ fresh => users \cup departments \cup subjects \cup classes = {}
          /\ nextEnrollmentId = IF fresh THEN 1 ELSE 3
          /\ nextDepartmentId = IF fresh THEN 1 ELSE 2
          /\ nextClassId = IF fresh THEN 1 ELSE NumClasses + 1
          /\ userClock = IF fresh THEN 1 ELSE 4
          /\ req = [r \in Reqs |->
                      IF r = 1 THEN SeedRun(data, IF fresh THEN 1 ELSE 2)
                      ELSE IdleReq]

SeedNext == Seed_delete(1) \/ Seed_insert(1)

SeedSpec == SeedInit /\ [][SeedNext]_vars

SeedTable(table) ==
    CASE table = "enrollments" -> enrollments
      [] table = "classes" -> classes
      [] table = "subjects" -> subjects
      [] table = "departments" -> departments
      [] table = "user" -> users

\* C29: a seed run on a consistent store empties the tables in the order
\* enrollments, classes, subjects, departments, users and fills them in the
\* order departments, subjects, users, classes, enrollments; no statement of
\* it is refused for a foreign key and the store stays consistent; when the
\* run is complete every seeded subject references the department with its
\* departmentCode, every seeded class the subject with its subjectCode, and
\* every seeded enrollment the class with its classInviteCode.
C29_SeedOrderAndReferences ==
    LET q == req[1]
        deleteOrder == <<"enrollments", "classes", "subjects", "departments", "user">>
        insertOrder == <<"departments", "subjects", "user", "classes", "enrollments">>
    IN  /\ q.thrown = "none"
        /\ StoreConsistent
        /\ q.pc = "delete" =>
              \A j \in 1..(q.step - 1) : SeedTable(deleteOrder[j]) = {}
        /\ q.pc = "insert" =>
              \A j \in 1..5 :
                 IF j < q.step THEN SeedTable(insertOrder[j]) # {}
                 ELSE SeedTable(insertOrder[j]) = {}
        /\ q.pc = "done" =>
              /\ \A i \in 1..Len(q.data.subjects) :
                    \E sub \in subjects, d \in departments :
                       /\ sub.code = q.data.subjects[i].code
                       /\ d.id = sub.departmentId
                       /\ d.code = q.data.subjects[i].departmentCode
              /\ \A i \in 1..Len(q.data.classes) :
                    \E c \in classes, sub \in subjects :
                       /\ c.inviteCode = q.data.classes[i].inviteCode
                       /\ sub.id = c.subjectId
                       /\ sub.code = q.data.classes[i].subjectCode
              /\ \A i \in 1..Len(q.data.enrollments) :
                    \E e \in enrollments, c \in classes :
                       /\ e.studentId = q.data.enrollments[i].studentId
                       /\ c.id = e.classId
                       /\ c.inviteCode = q.data.enrollments[i].classInviteCode
              /\ Cardinality(subjects) = Len(q.data.subjects)
              /\ Cardinality(classes) = Len(q.data.classes)
              /\ Cardinality(enrollments) = Len(q.data.enrollments)

\* a complete run of the two-department dataset on a used store
C29_Witness ==
    /\ req[1].route = "seed"
    /\ req[1].pc = "done"
    /\ req[1].data = DataTwo
    /\ req[1].nextSubjectId = 4
    /\ Cardinality(enrollments) = 2
    /\ \E c \in classes : c.inviteCode = "c2" /\ c.id = 3

-----------------------------------------------------------------------------
(* Specification: creates and joins, one at a time, on stores that differ   *)
(* in the capacity and the status of class 1, in the enrollment another     *)
(* user holds in it, and in the roles of the callers                        *)

CapacityInputs == {1, 50}

CapacityInit ==
    /\ \E roleOf \in [{"us", "ut"} -> Roles] :
          users = {IF u.id \in DOMAIN roleOf THEN [u EXCEPT !.role = roleOf[u.id]]
                   ELSE u : u \in SeedUsers}
    /\ departments = SeedDepartments
    /\ subjects = SeedSubjects
    /\ \E capacity \in CapacityInputs, status \in classStatusEnum :
          classes = {IF c.id = 1 THEN [c EXCEPT !.capacity = capacity,
                                                !.status = status]
                     ELSE c : c \in SeedClasses}
    /\ enrollments \in SUBSET {[id |-> 1, studentId |-> "ua", classId |-> 1]}
    /\ nextEnrollmentId = 2
    /\ nextDepartmentId = 2
    /\ nextClassId = NumClasses + 1
    /\ userClock = 4
    /\ req = [r \in Reqs |-> IdleReq]
    /\ inserted = {}

CapacityNext ==
    \/ \E session \in {"us", "ut", "ua"}, classId \in {1, NumClasses + 1} :
          StartEnrollmentCreate(1, EnrollmentsPost, session, classId, Missing, Missing)
    \/ \E session \in {"us", "ut", "ua"}, inviteCode \in {InviteCodes[1], "zz"} :
          StartEnrollmentCreate(1, EnrollmentsJoin, session, MissingNum, inviteCode,
                                Missing)
    \/ EnrollmentCreate_getClass(1)
    \/ EnrollmentCreate_getUser(1)
    \/ EnrollmentCreate_checkPair(1)
    \/ EnrollmentCreate_insert(1)
    \/ EnrollmentCreate_fetch(1)
    \/ Finish(1)

CapacitySpec == CapacityInit /\ [][CapacityNext]_vars

\* the body of a 201 in the store that differs only in these values: the
\* class with the default capacity and status, the teacher with the default
\* role
BaselineDetails(d) ==
    [d EXCEPT !.class = [@ EXCEPT !.capacity = 50, !.status = "active"],
              !.teacher = [@ EXCEPT !.role = "student"]]

\* the status and the error of a finished create are those of a handler that
\* looks at the class's existence and the caller's pair only
CreateStatusIgnoresClassState(r) ==
    LET q == req[r]
        held == {e \in enrollments : /\ e.id # q.createdId
                                     /\ e.studentId = q.session
                                     /\ \E c \in NamedClass(q) : e.classId = c.id}
    IN  IF NamedClass(q) = {}
        THEN q.status = 404 /\ q.error = "Class not found" /\ q.data = <<>>
        ELSE IF held # {}
        THEN /\ q.status = 409 /\ q.data = <<>>
             /\ q.error = "Student already enrolled in class"
        ELSE /\ q.status = 201 /\ q.error = ""
             /\ Len(q.data) = 1
             /\ \E c \in NamedClass(q) :
                   EnrollmentColumns(q.data[1]) =
                       [id |-> q.createdId, studentId |-> q.session, classId |-> c.id]
             /\ EnrollmentColumns(q.data[1]) \in enrollments

\* C30 as stated: a create or join gets the response it gets in the store
\* that differs only in the capacity and the status of the class, in the
\* number of its enrollments and in the caller's role.
C30_SameResponse ==
    (Done(1) /\ IsCreate(1)) =>
        /\ CreateStatusIgnoresClassState(1)
        /\ req[1].status = 201 => req[1].data[1] = BaselineDetails(req[1].data[1])

\* C30, amended: the status, the error and the enrollment stored by a create
\* or join do not depend on the capacity or the status of the class, on the
\* number of its enrollments or on the caller's role, so a caller without an
\* enrollment in an existing class gets 201 even in an archived or full
\* class; the body of the 201 carries the class as stored, with its capacity
\* and status, and the teacher of the class with the role stored.
C30_SameOutcome ==
    (Done(1) /\ IsCreate(1)) =>
        /\ CreateStatusIgnoresClassState(1)
        /\ req[1].status = 201 =>
              /\ req[1].data[1].class \in classes
              /\ req[1].data[1].teacher \in users
              /\ BaselineDetails(req[1].data[1]).class \in SeedClasses

\* a teacher got 201 in an archived class of capacity 1 that another user
\* was enrolled in
C30_Witness ==
    /\ Done(1) /\ IsCreate(1)
    /\ req[1].status = 201
    /\ req[1].role = "teacher"
    /\ req[1].data[1].class.status = "archived"
    /\ req[1].data[1].class.capacity = 1
    /\ Cardinality({e \in enrollments : e.classId = 1}) = 2

====
